---- MODULE Spec2Model ----
(***************************************************************************)
(* Verification model of the codepod sandbox: the async pipe               *)
(* (vfs/pipe.ts), the process kernel (process/kernel.ts), the WASI host's  *)
(* fd dispatch (wasi/wasi-host.ts) and the shell's pipeline executor       *)
(* (shell-exec/src/executor.rs).                                           *)
(***************************************************************************)
EXTENDS Integers, Sequences, FiniteSets, TLC

(***************************************************************************)
(* Bounds of the model (not program constants).                            *)
(***************************************************************************)
MaxCapacity == 2    \* largest pipe capacity tried
MaxBytes    == 4    \* total number of bytes the writer offers to one pipe
MaxData     == 3    \* longest data argument of one write / writeAsync
MaxBuf      == 2    \* longest buffer handed to one read
MaxPid      == 1    \* processes spawned on the bare process table
MaxWaits    == 3    \* waitpid calls issued on the bare kernel
MaxExit     == 1    \* largest exit code a guest reports

Min(a, b) == IF a <= b THEN a ELSE b

RECURSIVE Flatten(_)
Flatten(ss) == IF ss = <<>> THEN <<>> ELSE Head(ss) \o Flatten(Tail(ss))

Range(s) == {s[i] : i \in DOMAIN s}

(***************************************************************************)
(* Async pipe: createAsyncPipe and the closures over `shared`.             *)
(* A continuation slot (pendingReader / pendingWriter) is modelled by a    *)
(* flag; the buffer of a pending reader by its length (its content is the  *)
(* output of the read); bytes are naturals.                                *)
(***************************************************************************)
createAsyncPipe(capacity) ==
  [chunks            |-> <<>>,
   totalBytes        |-> 0,
   writeClosed       |-> FALSE,
   readClosed        |-> FALSE,
   capacity          |-> capacity,
   pendingReader     |-> FALSE,
   pendingReaderBuf  |-> 0,
   pendingWriter     |-> FALSE,
   pendingWriterData |-> <<>>]

\* What one call on a pipe end does: the new buffer state, the value returned
\* (ret, valid unless suspended), the bytes copied into the caller's buffer
\* (buf), the bytes appended to the chunk list (pushed), and the resolution
\* of the opposite side's pending continuation, if the call resolved it.
Outcome(s) ==
  [shared |-> s, ret |-> 0, suspended |-> FALSE, buf |-> <<>>, pushed |-> <<>>,
   rdWoke |-> FALSE, rdN |-> 0, rdBuf |-> <<>>,
   wrWoke |-> FALSE, wrN |-> 0]

RECURSIVE drainLoop(_, _, _)
drainLoop(s, out, len) ==
  IF Len(out) < len /\ Len(s.chunks) > 0
  THEN LET chunk  == s.chunks[1]
           needed == len - Len(out)
       IN IF Len(chunk) <= needed
          THEN drainLoop([s EXCEPT !.totalBytes = @ - Len(chunk),
                                   !.chunks = Tail(@)],
                         out \o chunk, len)
          ELSE drainLoop([s EXCEPT !.chunks = <<SubSeq(chunk, needed + 1, Len(chunk))>> \o Tail(@),
                                   !.totalBytes = @ - needed],
                         out \o SubSeq(chunk, 1, needed), len)
  ELSE [shared |-> s, buf |-> out]

\* Mutant: the drained chunks are copied out but never removed from the list.
drainChunks_noShift(s, len) ==
  LET d == drainLoop(s, <<>>, len)
  IN [d EXCEPT !.shared = [d.shared EXCEPT !.chunks = s.chunks]]

\* drainChunks(buf): offset is Len(result.buf).
drainChunks(s, len) == drainLoop(s, <<>>, len)

tryFlushPendingWriter(s) ==
  IF ~s.pendingWriter
  THEN Outcome(s)
  ELSE IF s.readClosed
  THEN [Outcome([s EXCEPT !.pendingWriter = FALSE, !.pendingWriterData = <<>>])
          EXCEPT !.wrWoke = TRUE, !.wrN = -1]
  ELSE LET spaceAvailable == s.capacity - s.totalBytes
           data    == s.pendingWriterData
           toWrite == Min(Len(data), spaceAvailable)
       IN IF spaceAvailable <= 0
          THEN Outcome(s)
          ELSE [Outcome([s EXCEPT !.chunks = Append(@, SubSeq(data, 1, toWrite)),
                                  !.totalBytes = @ + toWrite,
                                  !.pendingWriter = FALSE,
                                  !.pendingWriterData = <<>>])
                  EXCEPT !.pushed = SubSeq(data, 1, toWrite),
                         !.wrWoke = TRUE, !.wrN = toWrite]

\* Mutant: the end-of-file test comes before the drain.
readEnd_read_eofFirst(s, len) ==
  IF s.writeClosed
  THEN Outcome(s)
  ELSE IF s.totalBytes > 0
  THEN LET d == drainChunks(s, len)
           f == tryFlushPendingWriter(d.shared)
       IN [f EXCEPT !.ret = Len(d.buf), !.buf = d.buf]
  ELSE [Outcome([s EXCEPT !.pendingReader = TRUE, !.pendingReaderBuf = len])
          EXCEPT !.suspended = TRUE]

readEnd_read(s, len) ==
  IF s.totalBytes > 0
  THEN LET d == drainChunks(s, len)
           f == tryFlushPendingWriter(d.shared)
       IN [f EXCEPT !.ret = Len(d.buf), !.buf = d.buf]
  ELSE IF s.writeClosed
  THEN Outcome(s)
  ELSE [Outcome([s EXCEPT !.pendingReader = TRUE, !.pendingReaderBuf = len])
          EXCEPT !.suspended = TRUE]

readEnd_close(s) ==
  LET c == [s EXCEPT !.readClosed = TRUE]
  IN IF c.pendingWriter
     THEN [Outcome([c EXCEPT !.pendingWriter = FALSE, !.pendingWriterData = <<>>])
             EXCEPT !.wrWoke = TRUE, !.wrN = -1]
     ELSE Outcome(c)

\* Mutant: the whole of data is appended, whatever the free space.
writeEnd_write_noCap(s, data) ==
  IF s.readClosed \/ s.writeClosed
  THEN [Outcome(s) EXCEPT !.ret = -1]
  ELSE [Outcome([s EXCEPT !.chunks = IF Len(data) > 0 THEN Append(@, data) ELSE @,
                          !.totalBytes = @ + Len(data)])
          EXCEPT !.ret = Len(data), !.pushed = data]

\* Mutant: the write end closes without resolving the pending reader.
writeEnd_close_noWake(s) == Outcome([s EXCEPT !.writeClosed = TRUE])

writeEnd_write(s, data) ==
  IF s.readClosed \/ s.writeClosed
  THEN [Outcome(s) EXCEPT !.ret = -1]
  ELSE LET spaceAvailable == s.capacity - s.totalBytes
           toWrite == Min(Len(data), spaceAvailable)
           w == IF toWrite > 0
                THEN [s EXCEPT !.chunks = Append(@, SubSeq(data, 1, toWrite)),
                               !.totalBytes = @ + toWrite]
                ELSE s
           pushed == IF toWrite > 0 THEN SubSeq(data, 1, toWrite) ELSE <<>>
       IN IF w.pendingReader
          THEN LET d == drainChunks(w, w.pendingReaderBuf)
               IN [Outcome([d.shared EXCEPT !.pendingReader = FALSE,
                                            !.pendingReaderBuf = 0])
                     EXCEPT !.ret = toWrite, !.pushed = pushed,
                            !.rdWoke = TRUE, !.rdN = Len(d.buf), !.rdBuf = d.buf]
          ELSE [Outcome(w) EXCEPT !.ret = toWrite, !.pushed = pushed]

\* Mutant: writeAsync does not test readClosed before looking at the space.
writeEnd_writeAsync_noEpipe(s, data) ==
  IF s.writeClosed
  THEN [Outcome(s) EXCEPT !.ret = -1]
  ELSE LET spaceAvailable == s.capacity - s.totalBytes
       IN IF spaceAvailable >= Len(data)
          THEN writeEnd_write(s, data)
          ELSE [Outcome([s EXCEPT !.pendingWriter = TRUE, !.pendingWriterData = data])
                  EXCEPT !.suspended = TRUE]

writeEnd_writeAsync(s, data) ==
  IF s.readClosed \/ s.writeClosed
  THEN [Outcome(s) EXCEPT !.ret = -1]
  ELSE LET spaceAvailable == s.capacity - s.totalBytes
       IN IF spaceAvailable >= Len(data)
          THEN writeEnd_write(s, data)
          ELSE LET p == IF spaceAvailable > 0
                        THEN writeEnd_write(s, SubSeq(data, 1, spaceAvailable))
                        ELSE Outcome(s)
                   rest == IF spaceAvailable > 0
                           THEN SubSeq(data, spaceAvailable + 1, Len(data))
                           ELSE data
               IN [p EXCEPT !.shared = [p.shared EXCEPT !.pendingWriter = TRUE,
                                                        !.pendingWriterData = rest],
                            !.suspended = TRUE, !.ret = 0]

writeEnd_close(s) ==
  LET c == [s EXCEPT !.writeClosed = TRUE]
  IN IF c.pendingReader
     THEN [Outcome([c EXCEPT !.pendingReader = FALSE, !.pendingReaderBuf = 0])
             EXCEPT !.rdWoke = TRUE, !.rdN = 0]
     ELSE Outcome(c)

(***************************************************************************)
(* State of the single-pipe system: one pipe, one reader and one writer    *)
(* (a guest awaiting a call issues no further call), either end closable   *)
(* at any time.                                                            *)
(***************************************************************************)
VARIABLES
  shared,     \* the AsyncPipeBuffer
  nextByte,   \* next fresh byte value the writer offers
  accepted,   \* bytes the write end appended to the buffer, in order
  delivered,  \* bytes copied into read buffers and reported to the reader
  rdCall,     \* the reader's latest read: [st, n, len]
  wrCall,     \* the writer's latest write/writeAsync: [op, st, n, data]
  last,       \* the latest call: [op, arg, ret]; ret -2 = suspended; for a
              \* close, arg = 1 when it resolved a pending continuation
  eofSeen,    \* reads that returned 0 while the write end was closed (0, 1, 2 = more)
  eofSeenNE   \* ... counting only reads that had a non-empty buffer

pipeVars == <<shared, nextByte, accepted, delivered, rdCall, wrCall, last,
              eofSeen, eofSeenNE>>

(***************************************************************************)
(* State of the process kernel and of what runs on it.                     *)
(***************************************************************************)
VARIABLES
  kernel,     \* the ProcessKernel: processTable, nextPid, fdTables, nextFds
  pipes,      \* the AsyncPipeBuffers the kernel created, by pipe id
  buffers,    \* the buffer fd-targets, by buffer id: [buf, total, limit, truncated]
  spawns,     \* the spawnAsyncProcess calls, in call order: [pid, st, ret, io]
  procs,      \* the guests by pid: [st, exit, latched, io]
  waits       \* the kernel.waitpid calls, in call order: [pid, reg, queued, st, n, count]

kernelVars == <<kernel, pipes, buffers, spawns, procs, waits>>

\* sh: the shell guest executing one pipeline, and who holds the event loop.
VARIABLES sh

shellVars == <<sh>>

(***************************************************************************)
(* State of the virtual filesystem and of the persistence layer.           *)
(***************************************************************************)
VARIABLES
  inodes,     \* the inode objects, by identity: [type, permissions, content, target, children]
  vfs,        \* the VFS under test
  twin,       \* the VFS that cowClone returned (root 0: none yet)
  taken,      \* what each snapshot id saw of the live tree when it was taken
  fsLast,     \* the latest VFS call: [on, op, id, ok, changed] and the calls left
  imp,        \* the latest exportState / importState call
  sandbox     \* the Sandbox facade over the VFS and the shell runner

fsVars == <<inodes, vfs, twin, taken, fsLast, imp, sandbox>>

\* bridge: the NetworkBridge, its worker and the thread that calls fetchSync.
VARIABLES bridge

netVars == <<bridge>>

vars == <<pipeVars, kernelVars, shellVars, fsVars, netVars>>

nonPipeVars == <<kernelVars, shellVars, fsVars, netVars>>

EmptyMap == [x \in {} |-> 0]
Put(m, k, v) == [x \in (DOMAIN m) \cup {k} |-> IF x = k THEN v ELSE m[x]]
Del(m, k) == [x \in (DOMAIN m) \ {k} |-> m[x]]

\* new ProcessKernel(): process 0 (the shell) has an empty fd table.
ProcessKernel ==
  [processTable |-> EmptyMap,
   nextPid      |-> 1,
   fdTables     |-> Put(EmptyMap, 0, EmptyMap),
   nextFds      |-> Put(EmptyMap, 0, 3)]

ShellOff ==
  [pc |-> "off", cpu |-> "idle", stages |-> <<>>, pipefail |-> FALSE,
   spawnProcess |-> TRUE,
   fds |-> <<>>, i |-> 0, pids |-> <<>>, stdin_fd |-> 0, stdout_fd |-> 1,
   last_exit_code |-> 0, pipefail_code |-> 0, state_last_exit_code |-> 0,
   result |-> [done |-> FALSE, exitCode |-> 0, stdout |-> <<>>]]

\* No Sandbox has been created.
NoSandbox == [destroyed |-> FALSE]

\* No NetworkBridge has been constructed.
NoBridge == [status |-> 0]

\* No VFS has been constructed.
FsIdle ==
  /\ bridge = NoBridge
  /\ sandbox = NoSandbox
  /\ inodes = <<>>
  /\ vfs = [root |-> 0]
  /\ twin = [root |-> 0]
  /\ taken = <<>>
  /\ fsLast = [op |-> "none"]
  /\ imp = [op |-> "none"]

KernelIdle ==
  /\ sh = ShellOff
  /\ kernel = ProcessKernel
  /\ pipes = <<>>
  /\ buffers = <<>>
  /\ spawns = <<>>
  /\ procs = EmptyMap
  /\ waits = <<>>

NoCall == [st |-> "none", n |-> 0, len |-> 0]
NoWrite == [op |-> "none", st |-> "none", n |-> 0, data |-> <<>>]

InitPipeVars(caps) ==
  /\ shared \in {createAsyncPipe(c) : c \in caps}
  /\ nextByte = 1
  /\ accepted = <<>>
  /\ delivered = <<>>
  /\ rdCall = NoCall
  /\ wrCall = NoWrite
  /\ last = [op |-> "create", arg |-> 0, ret |-> 0]
  /\ eofSeen = 0
  /\ eofSeenNE = 0

InitPipe == InitPipeVars(1..MaxCapacity) /\ KernelIdle /\ FsIdle

FreshData(k) == [i \in 1..k |-> nextByte + i - 1]

\* Bookkeeping common to the calls: r is the Outcome of the call.
Observe(r, op, arg) ==
  /\ shared' = r.shared
  /\ accepted' = accepted \o r.pushed
  /\ delivered' = delivered \o r.buf \o r.rdBuf
  /\ last' = [op |-> op, arg |-> arg, ret |-> IF r.suspended THEN -2 ELSE r.ret]

Read(len) ==
  /\ rdCall.st # "pending"
  /\ LET r == readEnd_read(shared, len)
         zero == ~r.suspended /\ r.ret = 0 /\ shared.writeClosed
     IN /\ Observe(r, "read", len)
        /\ rdCall' = IF r.suspended
                     THEN [st |-> "pending", n |-> 0, len |-> len]
                     ELSE [st |-> "resolved", n |-> r.ret, len |-> len]
        /\ wrCall' = IF r.wrWoke
                     THEN [wrCall EXCEPT !.st = "resolved", !.n = r.wrN]
                     ELSE wrCall
        /\ eofSeen' = IF zero THEN Min(eofSeen + 1, 2) ELSE eofSeen
        /\ eofSeenNE' = IF zero /\ len > 0 THEN Min(eofSeenNE + 1, 2) ELSE eofSeenNE
  /\ UNCHANGED <<nextByte, nonPipeVars>>

ReadEndClose ==
  /\ LET r == readEnd_close(shared)
     IN /\ Observe(r, "readClose", IF r.wrWoke THEN 1 ELSE 0)
        /\ wrCall' = IF r.wrWoke
                     THEN [wrCall EXCEPT !.st = "resolved", !.n = r.wrN]
                     ELSE wrCall
  /\ UNCHANGED <<nextByte, rdCall, eofSeen, eofSeenNE, nonPipeVars>>

WriterCall(r, op, data) ==
  /\ Observe(r, op, Len(data))
  /\ nextByte' = nextByte + Len(data)
  /\ wrCall' = IF r.suspended
               THEN [op |-> op, st |-> "pending", n |-> 0, data |-> data]
               ELSE [op |-> op, st |-> "resolved", n |-> r.ret, data |-> data]
  /\ rdCall' = IF r.rdWoke
               THEN [rdCall EXCEPT !.st = "resolved", !.n = r.rdN]
               ELSE rdCall
  /\ UNCHANGED <<eofSeen, eofSeenNE, nonPipeVars>>

Write(k) ==
  /\ wrCall.st # "pending"
  /\ nextByte + k - 1 <= MaxBytes
  /\ WriterCall(writeEnd_write(shared, FreshData(k)), "write", FreshData(k))

WriteAsync(k) ==
  /\ wrCall.st # "pending"
  /\ nextByte + k - 1 <= MaxBytes
  /\ WriterCall(writeEnd_writeAsync(shared, FreshData(k)), "writeAsync", FreshData(k))

WriteEndClose ==
  /\ LET r == writeEnd_close(shared)
     IN /\ Observe(r, "writeClose", IF r.rdWoke THEN 1 ELSE 0)
        /\ rdCall' = IF r.rdWoke
                     THEN [rdCall EXCEPT !.st = "resolved", !.n = r.rdN]
                     ELSE rdCall
        /\ eofSeen' = IF r.rdWoke THEN Min(eofSeen + 1, 2) ELSE eofSeen
        /\ eofSeenNE' = IF r.rdWoke /\ rdCall.len > 0 THEN Min(eofSeenNE + 1, 2) ELSE eofSeenNE
  /\ UNCHANGED <<nextByte, wrCall, nonPipeVars>>

NextPipe ==
  \/ \E len \in 0..MaxBuf : Read(len)
  \/ \E k \in 0..MaxData : Write(k)
  \/ \E k \in 0..MaxData : WriteAsync(k)
  \/ ReadEndClose
  \/ WriteEndClose

SpecPipe == InitPipe /\ [][NextPipe]_vars

\* The reader keeps the pipe moving: it reads into a non-empty buffer, or
\* closes its end, whenever it is not itself awaiting a read.
ReaderProgress ==
  \/ \E len \in 1..MaxBuf : Read(len)
  \/ (rdCall.st # "pending" /\ ReadEndClose)

SpecPipeFair == InitPipe /\ [][NextPipe]_vars /\ WF_vars(ReaderProgress)

StrictlyIncreasing(s) == \A i, j \in DOMAIN s : i < j => s[i] < s[j]

\* C1: the bytes delivered to reads, followed by the bytes still buffered,
\* are exactly the bytes the write end accepted, in the order of acceptance
\* and each once (accepted bytes are distinct, in the order offered).
C1_FifoExactlyOnce ==
  /\ delivered \o Flatten(shared.chunks) = accepted
  /\ StrictlyIncreasing(accepted)
  /\ Range(accepted) \subseteq 1..(nextByte - 1)

C1_Witness ==
  /\ Len(delivered) >= 3
  /\ Len(shared.chunks) >= 1
  /\ wrCall.st = "resolved"

\* C5: a suspended writeAsync is eventually resolved when the reader keeps
\* reading or closes its end.
C5_SuspendedWriterResolved == (wrCall.st = "pending") ~> (wrCall.st # "pending")

\* C6 (as stated): once the write end is closed, after the first read that
\* returned 0 every further read returns 0.
C6_ZeroThenAlwaysZero ==
  [][(eofSeen > 0 /\ last'.op = "read") => last'.ret = 0]_vars

\* C6 (amended): once the write end is closed, every read returns at once the
\* first min(buffer length, buffered bytes) bytes still buffered, and after
\* the first read with a non-empty buffer that returned 0 every further read
\* returns 0.
C6_DrainThenEof ==
  /\ [][(shared.writeClosed /\ last'.op = "read")
          => /\ last'.ret = Min(last'.arg, shared.totalBytes)
             /\ delivered' = delivered \o SubSeq(Flatten(shared.chunks), 1, last'.ret)]_vars
  /\ [][(eofSeenNE > 0 /\ last'.op = "read") => last'.ret = 0]_vars

C6_Witness ==
  /\ shared.writeClosed
  /\ eofSeenNE = 2
  /\ Len(delivered) >= 2
  /\ last.op = "read" /\ last.arg > 0 /\ last.ret = 0

\* C7: once the read end is closed, a write returns -1 and a writeAsync
\* resolves at once with -1, and the call leaves the buffer and the accepted
\* bytes as they were.
C7_EpipeAfterReadClose ==
  [][(shared.readClosed /\ last'.op \in {"write", "writeAsync"})
       => /\ last'.ret = -1
          /\ wrCall'.st = "resolved" /\ wrCall'.n = -1
          /\ shared'.chunks = shared.chunks
          /\ shared'.totalBytes = shared.totalBytes
          /\ accepted' = accepted]_vars

C7_Witness ==
  /\ shared.readClosed
  /\ last.op = "writeAsync" /\ last.arg > 0 /\ last.ret = -1
  /\ shared.totalBytes > 0

\* C8: closing the write end resolves a suspended read with 0, closing the
\* read end resolves a suspended writeAsync with -1, and once an end is
\* closed no call of the opposite side is pending.
C8_CloseResolvesOpposite ==
  /\ [](shared.writeClosed => (rdCall.st # "pending" /\ ~shared.pendingReader))
  /\ [](shared.readClosed => (wrCall.st # "pending" /\ ~shared.pendingWriter))
  /\ [][(last'.op = "writeClose" /\ rdCall.st = "pending")
          => (rdCall'.st = "resolved" /\ rdCall'.n = 0)]_vars
  /\ [][(last'.op = "readClose" /\ wrCall.st = "pending")
          => (wrCall'.st = "resolved" /\ wrCall'.n = -1)]_vars

C8_Witness ==
  /\ last.op = "readClose" /\ last.arg = 1
  /\ wrCall.st = "resolved" /\ wrCall.n = -1
  /\ shared.totalBytes > 0

\* C9: the buffered bytes, as counted by totalBytes and as held in the chunk
\* list, never exceed the capacity.
C9_BufferedAtMostCapacity ==
  /\ shared.totalBytes <= shared.capacity
  /\ Len(Flatten(shared.chunks)) <= shared.capacity

C9_Witness ==
  /\ shared.totalBytes = shared.capacity
  /\ last.op = "write" /\ last.ret >= 0 /\ last.ret < last.arg

(***************************************************************************)
(* Fd-targets (wasi/fd-target.ts).  A target is a reference: ref is the id *)
(* of the pipe or of the buffer it points to, so that a target copied into *)
(* another fd table shares the object.                                     *)
(***************************************************************************)
Infinity == 1000
DEFAULT_PIPE_CAPACITY == 2   \* 65536 in the source, scaled down

createNullTarget == [type |-> "null", ref |-> 0]
BufferRef(b) == [type |-> "buffer", ref |-> b]
PipeReadRef(p) == [type |-> "pipe_read", ref |-> p]
PipeWriteRef(p) == [type |-> "pipe_write", ref |-> p]
createBufferTarget(limit) ==
  [buf |-> <<>>, total |-> 0, limit |-> limit, truncated |-> FALSE]

(***************************************************************************)
(* ProcessKernel (process/kernel.ts).                                      *)
(***************************************************************************)
HasFdTable(k, pid) == pid \in DOMAIN k.fdTables

\* createPipe installing the two ends the other way round.
createPipe_swapped(k, heap, callerPid) ==
  LET id      == Len(heap) + 1
      nextFd  == IF callerPid \in DOMAIN k.nextFds THEN k.nextFds[callerPid] ELSE 3
      readFd  == nextFd
      writeFd == nextFd + 1
      fdTable == Put(Put(k.fdTables[callerPid], readFd, PipeWriteRef(id)),
                     writeFd, PipeReadRef(id))
  IN [kernel  |-> [k EXCEPT !.nextFds = Put(@, callerPid, nextFd + 2),
                            !.fdTables = Put(@, callerPid, fdTable)],
      pipes   |-> Append(heap, createAsyncPipe(DEFAULT_PIPE_CAPACITY)),
      readFd  |-> readFd,
      writeFd |-> writeFd]

createPipe(k, heap, callerPid) ==
  LET id      == Len(heap) + 1
      nextFd  == IF callerPid \in DOMAIN k.nextFds THEN k.nextFds[callerPid] ELSE 3
      readFd  == nextFd
      writeFd == nextFd + 1
      fdTable == Put(Put(k.fdTables[callerPid], readFd, PipeReadRef(id)),
                     writeFd, PipeWriteRef(id))
  IN [kernel  |-> [k EXCEPT !.nextFds = Put(@, callerPid, nextFd + 2),
                            !.fdTables = Put(@, callerPid, fdTable)],
      pipes   |-> Append(heap, createAsyncPipe(DEFAULT_PIPE_CAPACITY)),
      readFd  |-> readFd,
      writeFd |-> writeFd]

setFdTarget(k, pid, fd, target) ==
  LET fdTable == IF pid \in DOMAIN k.fdTables THEN k.fdTables[pid] ELSE EmptyMap
  IN [k EXCEPT !.fdTables = Put(@, pid, Put(fdTable, fd, target))]

\* JavaScript property access: a key the object lacks reads as undefined,
\* and no fd table has undefined as a key.
undefined == -1
Field(obj, key) == IF key \in DOMAIN obj THEN obj[key] ELSE undefined

\* req is the parsed spawn request; the caller has an fd table.
buildFdTableForSpawn(k, callerPid, req) ==
  LET callerFdTable == k.fdTables[callerPid]
      stdinFd  == Field(req, "stdinFd")
      stdoutFd == Field(req, "stdoutFd")
      stderrFd == Field(req, "stderrFd")
      t0 == IF stdinFd \in DOMAIN callerFdTable
            THEN Put(EmptyMap, 0, callerFdTable[stdinFd]) ELSE EmptyMap
      t1 == IF stdoutFd \in DOMAIN callerFdTable
            THEN Put(t0, 1, callerFdTable[stdoutFd]) ELSE t0
      t2 == IF stderrFd \in DOMAIN callerFdTable
            THEN Put(t1, 2, callerFdTable[stderrFd]) ELSE t1
  IN t2

registerProcess(k, pid) ==
  [k EXCEPT !.processTable =
     Put(@, pid, [pid |-> pid, exitCode |-> -1, state |-> "running", waiters |-> <<>>])]

\* Mutant: only the first waiter is notified.
registerProcess_onExit_firstOnly(k, pid, code) ==
  IF pid \in DOMAIN k.processTable
  THEN [kernel |-> [k EXCEPT !.processTable[pid].state = "exited",
                             !.processTable[pid].exitCode = code,
                             !.processTable[pid].waiters = <<>>],
        found  |-> TRUE,
        woken  |-> IF k.processTable[pid].waiters = <<>>
                   THEN <<>> ELSE <<Head(k.processTable[pid].waiters)>>]
  ELSE [kernel |-> k, found |-> FALSE, woken |-> <<>>]

\* The callback registerProcess attaches with promise.then: code is
\* wasiHost.getExitCode(); woken lists the waiters it calls, in order.
registerProcess_onExit(k, pid, code) ==
  IF pid \in DOMAIN k.processTable
  THEN [kernel |-> [k EXCEPT !.processTable[pid].state = "exited",
                             !.processTable[pid].exitCode = code,
                             !.processTable[pid].waiters = <<>>],
        found  |-> TRUE,
        woken  |-> k.processTable[pid].waiters]
  ELSE [kernel |-> k, found |-> FALSE, woken |-> <<>>]

allocPid(k) == [kernel |-> [k EXCEPT !.nextPid = @ + 1], pid |-> k.nextPid]

\* waitpid(pid) called as the wait with identity w.
waitpid(k, pid, w) ==
  IF pid \notin DOMAIN k.processTable
  THEN [kernel |-> k, suspended |-> FALSE, ret |-> -1]
  ELSE IF k.processTable[pid].state = "exited"
  THEN [kernel |-> k, suspended |-> FALSE, ret |-> k.processTable[pid].exitCode]
  ELSE [kernel |-> [k EXCEPT !.processTable[pid].waiters = Append(@, w)],
        suspended |-> TRUE, ret |-> 0]

closeFd(k, heap, pid, fd) ==
  IF pid \notin DOMAIN k.fdTables \/ fd \notin DOMAIN k.fdTables[pid]
  THEN [kernel |-> k, pipes |-> heap]
  ELSE LET target == k.fdTables[pid][fd]
           closed == IF target.type = "pipe_read"
                     THEN [heap EXCEPT ![target.ref] = readEnd_close(@).shared]
                     ELSE IF target.type = "pipe_write"
                     THEN [heap EXCEPT ![target.ref] = writeEnd_close(@).shared]
                     ELSE heap
       IN [kernel |-> [k EXCEPT !.fdTables[pid] = Del(@, fd)], pipes |-> closed]

initProcess(k, pid) ==
  IF pid \in DOMAIN k.fdTables
  THEN k
  ELSE [k EXCEPT !.fdTables = Put(@, pid, EmptyMap), !.nextFds = Put(@, pid, 3)]

Held(k, type, id) ==
  \E pid \in DOMAIN k.fdTables : \E fd \in DOMAIN k.fdTables[pid] :
     k.fdTables[pid][fd] = [type |-> type, ref |-> id]

dispose(k, heap) ==
  [kernel |-> [k EXCEPT !.fdTables = EmptyMap, !.processTable = EmptyMap],
   pipes  |-> [id \in DOMAIN heap |->
                 LET a == IF Held(k, "pipe_read", id)
                          THEN readEnd_close(heap[id]).shared ELSE heap[id]
                 IN IF Held(k, "pipe_write", id)
                    THEN writeEnd_close(a).shared ELSE a]]

(***************************************************************************)
(* WasiHost fd dispatch (wasi/wasi-host.ts).  ioFds is the fd table of the *)
(* host; iovecs is the sequence of byte strings of the call.               *)
(***************************************************************************)
WASI_ESUCCESS == "ESUCCESS"
WASI_EBADF == "EBADF"
WASI_EPIPE == "EPIPE"

\* The VFS paths of fd_write / fd_read: an fd that no path_open created.
fdWriteFile(fd) == WASI_EBADF
fdReadFile(fd) == WASI_EBADF

IoResult(errno, n, heap, bufs) ==
  [errno |-> errno, n |-> n, pipes |-> heap, buffers |-> bufs]

RECURSIVE fdWriteLoop(_, _, _, _, _)
fdWriteLoop(target, heap, bufs, iovecs, totalWritten) ==
  IF iovecs = <<>>
  THEN IoResult(WASI_ESUCCESS, totalWritten, heap, bufs)
  ELSE LET data == Head(iovecs)
       IN CASE target.type = "buffer" ->
                 LET b == bufs[target.ref]
                     remaining == b.limit - b.total
                     slice == IF Len(data) <= remaining
                              THEN data ELSE SubSeq(data, 1, remaining)
                     b1 == IF b.total < b.limit
                           THEN [b EXCEPT !.buf = Append(@, slice),
                                          !.truncated = @ \/ (Len(data) > remaining)]
                           ELSE [b EXCEPT !.truncated = TRUE]
                     b2 == [b1 EXCEPT !.total = @ + Len(data)]
                 IN fdWriteLoop(target, heap, [bufs EXCEPT ![target.ref] = b2],
                                Tail(iovecs), totalWritten + Len(data))
            [] target.type = "pipe_write" ->
                 LET r == writeEnd_write(heap[target.ref], data)
                 IN IF r.ret = -1
                    THEN IoResult(WASI_EPIPE, 0, heap, bufs)
                    ELSE fdWriteLoop(target, [heap EXCEPT ![target.ref] = r.shared],
                                     bufs, Tail(iovecs), totalWritten + r.ret)
            [] target.type = "null" ->
                 fdWriteLoop(target, heap, bufs, Tail(iovecs), totalWritten + Len(data))
            [] OTHER -> IoResult(WASI_EBADF, 0, heap, bufs)

\* Mutant: a failed pipe write is reported as a write of no bytes.
fdWrite_noEpipe(ioFds, heap, bufs, fd, iovecs) ==
  IF fd \notin DOMAIN ioFds
  THEN IoResult(fdWriteFile(fd), 0, heap, bufs)
  ELSE LET r == fdWriteLoop(ioFds[fd], heap, bufs, iovecs, 0)
       IN IF r.errno = WASI_EPIPE THEN IoResult(WASI_ESUCCESS, 0, heap, bufs) ELSE r

fdWrite(ioFds, heap, bufs, fd, iovecs) ==
  IF fd \notin DOMAIN ioFds
  THEN IoResult(fdWriteFile(fd), 0, heap, bufs)
  ELSE fdWriteLoop(ioFds[fd], heap, bufs, iovecs, 0)

\* n bytes read and the bytes themselves; lens are the iovec lengths.  The
\* pipe_read case leaves the loop at once, like null: nothing is read.
fdRead(ioFds, heap, fd, lens) ==
  IF fd \notin DOMAIN ioFds
  THEN [errno |-> fdReadFile(fd), n |-> 0, data |-> <<>>]
  ELSE IF lens = <<>> \/ ioFds[fd].type \in {"pipe_read", "null"}
  THEN [errno |-> WASI_ESUCCESS, n |-> 0, data |-> <<>>]
  ELSE [errno |-> WASI_EBADF, n |-> 0, data |-> <<>>]

bufferToString(b) == Flatten(b.buf)

(***************************************************************************)
(* spawnAsyncProcess (shell/shell-instance.ts), in its two synchronous     *)
(* runs: up to `await adapter.instantiate`, and from there to `return pid`.*)
(* prog describes the guest the module runs.                               *)
(***************************************************************************)
NewProc(ioFds, prog) ==
  [st |-> "ready", exit |-> -1, latched |-> FALSE, io |-> ioFds,
   role |-> prog.role, out |-> prog.data, code |-> prog.code,
   errno |-> WASI_ESUCCESS, sent |-> 0]

\* found: mgr.getModule(req.prog) returned a module.
spawnAsyncProcess_begin(k, ioFds, prog, found) ==
  LET a  == allocPid(k)
      k1 == initProcess(a.kernel, a.pid)
  IN [kernel |-> k1,
      task   |-> [pid |-> a.pid, io |-> ioFds, prog |-> prog, ret |-> -1,
                  st |-> IF found THEN "instantiating" ELSE "resolved"]]

spawnAsyncProcess_resume(k, task) ==
  [kernel |-> registerProcess(k, task.pid),
   task   |-> [task EXCEPT !.st = "resolved", !.ret = task.pid]]

(***************************************************************************)
(* Guests.  A spawned guest is a coreutils-style filter: it writes its     *)
(* output data to fd 1 until all of it is written ("emit"), or first reads *)
(* fd 0 and then writes what it has read, until end of file ("copy").  It  *)
(* ends with an error status at the first I/O call that fails or that      *)
(* accepts no byte.                                                        *)
(***************************************************************************)
GuestFailed == 1

Bytes(owner, k) == [j \in 1..k |-> 10 * owner + j]

Progs(owner) ==
  [role : {"emit"}, data : {Bytes(owner, k) : k \in 0..MaxData}, code : 0..MaxExit]
    \cup [role : {"copy"}, data : {<<>>}, code : 0..MaxExit]

Running(pid) == pid \in DOMAIN procs /\ procs[pid].st = "ready" /\ sh.cpu = "idle"

GuestWrite(pid) ==
  /\ Running(pid)
  /\ procs[pid].out # <<>>
  /\ LET r == fdWrite(procs[pid].io, pipes, buffers, 1, <<procs[pid].out>>)
     IN /\ pipes' = r.pipes
        /\ buffers' = r.buffers
        /\ procs' = [procs EXCEPT ![pid] =
             IF r.errno # WASI_ESUCCESS \/ r.n = 0
             THEN [@ EXCEPT !.st = "exited", !.exit = GuestFailed, !.errno = r.errno]
             ELSE [@ EXCEPT !.out = SubSeq(@, r.n + 1, Len(@)), !.sent = @ + r.n]]
  /\ UNCHANGED <<kernel, spawns, waits, sh, pipeVars, fsVars, netVars>>

GuestRead(pid) ==
  /\ Running(pid)
  /\ procs[pid].role = "copy"
  /\ procs[pid].out = <<>>
  /\ LET r == fdRead(procs[pid].io, pipes, 0, <<MaxBuf>>)
     IN procs' = [procs EXCEPT ![pid] =
          IF r.errno # WASI_ESUCCESS
          THEN [@ EXCEPT !.st = "exited", !.exit = GuestFailed, !.errno = r.errno]
          ELSE IF r.n = 0
          THEN [@ EXCEPT !.st = "exited", !.exit = procs[pid].code]
          ELSE [@ EXCEPT !.out = r.data]]
  /\ UNCHANGED <<kernel, pipes, buffers, spawns, waits, sh, pipeVars, fsVars, netVars>>

GuestExit(pid) ==
  /\ Running(pid)
  /\ procs[pid].role = "emit"
  /\ procs[pid].out = <<>>
  /\ procs' = [procs EXCEPT ![pid].st = "exited", ![pid].exit = procs[pid].code]
  /\ UNCHANGED <<kernel, pipes, buffers, spawns, waits, sh, pipeVars, fsVars, netVars>>

Resolve(ws, woken, code) ==
  [w \in DOMAIN ws |->
     LET hits == Cardinality({i \in DOMAIN woken : woken[i] = w})
     IN IF hits > 0
        THEN [ws[w] EXCEPT !.st = "resolved", !.n = code, !.count = @ + hits]
        ELSE ws[w]]

\* The promise of an exited guest has settled: the callback of
\* registerProcess runs.
ExitCallback(pid) ==
  /\ pid \in DOMAIN procs
  /\ procs[pid].st = "exited"
  /\ sh.cpu = "idle"
  /\ LET r == registerProcess_onExit(kernel, pid, procs[pid].exit)
     IN /\ kernel' = r.kernel
        /\ waits' = Resolve(waits, r.woken, procs[pid].exit)
        /\ procs' = [procs EXCEPT ![pid].st = "reaped", ![pid].latched = r.found]
  /\ UNCHANGED <<pipes, buffers, spawns, sh, pipeVars, fsVars, netVars>>

\* adapter.instantiate has resolved: the second run of spawnAsyncProcess.
SpawnResume(t) ==
  /\ spawns[t].st = "instantiating"
  /\ sh.cpu = "idle"
  /\ LET r == spawnAsyncProcess_resume(kernel, spawns[t])
     IN /\ kernel' = r.kernel
        /\ spawns' = [spawns EXCEPT ![t] = r.task]
        /\ procs' = Put(procs, r.task.pid, NewProc(r.task.io, r.task.prog))
  /\ UNCHANGED <<pipes, buffers, waits, sh, pipeVars, fsVars, netVars>>

Background ==
  \/ \E t \in DOMAIN spawns : SpawnResume(t)
  \/ \E pid \in DOMAIN procs : GuestWrite(pid)
  \/ \E pid \in DOMAIN procs : GuestRead(pid)
  \/ \E pid \in DOMAIN procs : GuestExit(pid)
  \/ \E pid \in DOMAIN procs : ExitCallback(pid)

(***************************************************************************)
(* The bare kernel: pipes, spawns, closes and waitpid calls issued in any  *)
(* order by host code on behalf of pid 0, while the spawned guests run.    *)
(***************************************************************************)
MaxPipes == 1
MaxGuests == 2

\* The runner gives the shell (pid 0) a null stdin and two capture buffers.
ConfiguredKernel ==
  setFdTarget(setFdTarget(setFdTarget(ProcessKernel, 0, 0, createNullTarget),
                          0, 1, BufferRef(1)),
              0, 2, BufferRef(2))

KernelBoot ==
  /\ kernel = ConfiguredKernel
  /\ pipes = <<>>
  /\ buffers = <<createBufferTarget(Infinity), createBufferTarget(Infinity)>>
  /\ spawns = <<>>
  /\ procs = EmptyMap
  /\ waits = <<>>

PipeIdle == InitPipeVars({DEFAULT_PIPE_CAPACITY})

InitKernel == KernelBoot /\ PipeIdle /\ sh = ShellOff /\ FsIdle

FdsOf(k, pid, types) ==
  IF HasFdTable(k, pid)
  THEN {fd \in DOMAIN k.fdTables[pid] : k.fdTables[pid][fd].type \in types}
  ELSE {}

KCreatePipe ==
  /\ Len(pipes) < MaxPipes
  /\ HasFdTable(kernel, 0)
  /\ LET r == createPipe(kernel, pipes, 0)
     IN /\ kernel' = r.kernel
        /\ pipes' = r.pipes
  /\ UNCHANGED <<buffers, spawns, procs, waits, sh, pipeVars, fsVars, netVars>>

KCloseFd(fd) ==
  /\ LET r == closeFd(kernel, pipes, 0, fd)
     IN /\ kernel' = r.kernel
        /\ pipes' = r.pipes
  /\ UNCHANGED <<buffers, spawns, procs, waits, sh, pipeVars, fsVars, netVars>>

KSpawn(req, prog, found) ==
  /\ HasFdTable(kernel, 0)
  /\ LET b == spawnAsyncProcess_begin(kernel, buildFdTableForSpawn(kernel, 0, req),
                                      prog, found)
     IN /\ kernel' = b.kernel
        /\ spawns' = Append(spawns, b.task)
  /\ UNCHANGED <<pipes, buffers, procs, waits, sh, pipeVars, fsVars, netVars>>

KWaitpid(pid) ==
  /\ Len(waits) < MaxWaits
  /\ LET w == Len(waits) + 1
         r == waitpid(kernel, pid, w)
     IN /\ kernel' = r.kernel
        /\ waits' = Append(waits,
             [pid    |-> pid,
              reg    |-> pid \in DOMAIN kernel.processTable,
              queued |-> r.suspended,
              st     |-> IF r.suspended THEN "pending" ELSE "resolved",
              n      |-> r.ret,
              count  |-> IF r.suspended THEN 0 ELSE 1])
  /\ UNCHANGED <<pipes, buffers, spawns, procs, sh, pipeVars, fsVars, netVars>>

KDispose ==
  /\ kernel.fdTables # EmptyMap \/ kernel.processTable # EmptyMap
  /\ LET r == dispose(kernel, pipes)
     IN /\ kernel' = r.kernel
        /\ pipes' = r.pipes
  /\ UNCHANGED <<buffers, spawns, procs, waits, sh, pipeVars, fsVars, netVars>>

Requests(k) ==
  [stdinFd : FdsOf(k, 0, {"null", "pipe_read"}),
   stdoutFd : FdsOf(k, 0, {"buffer", "pipe_write"}),
   stderrFd : {2}]

\* The process table alone: guests that do no I/O are spawned on the
\* standard fds, exit, and are waited for.
Quiet(owner) == [role : {"emit"}, data : {<<>>}, code : 0..MaxExit]

StdReq == [stdinFd |-> 0, stdoutFd |-> 1, stderrFd |-> 2]

NextKernel ==
  \/ /\ kernel.nextPid <= MaxPid
     /\ \E prog \in Quiet(kernel.nextPid) : \E found \in BOOLEAN :
          KSpawn(StdReq, prog, found)
  \/ \E t \in DOMAIN spawns : SpawnResume(t)
  \/ \E pid \in DOMAIN procs : GuestExit(pid)
  \/ \E pid \in DOMAIN procs : ExitCallback(pid)
  \/ \E pid \in 0..MaxPid : KWaitpid(pid)
  \/ KDispose

SpecKernel == InitKernel /\ [][NextKernel]_vars

\* C10: once the exit callback of a registered process has run, the process
\* is exited with the exit code of its WASI host and no waiter is left; every
\* waitpid issued on it while it was registered, before or after the exit,
\* is resolved exactly once with that code; no waitpid is resolved before
\* the exit or more than once.
C10_ExitLatchedAndWaitersDrained ==
  /\ \A pid \in DOMAIN procs :
       (procs[pid].latched /\ pid \in DOMAIN kernel.processTable)
         => /\ kernel.processTable[pid].state = "exited"
            /\ kernel.processTable[pid].exitCode = procs[pid].exit
            /\ kernel.processTable[pid].waiters = <<>>
  /\ \A w \in DOMAIN waits :
       /\ waits[w].count <= 1
       /\ waits[w].reg =>
            /\ waits[w].pid \in DOMAIN procs
            /\ procs[waits[w].pid].latched
                 => /\ waits[w].st = "resolved"
                    /\ waits[w].count = 1
                    /\ waits[w].n = procs[waits[w].pid].exit
            /\ waits[w].st = "resolved" => procs[waits[w].pid].st = "reaped"

C10_Witness ==
  \E a, b, c \in DOMAIN waits :
    /\ a < b /\ b < c
    /\ waits[a].pid = waits[b].pid /\ waits[b].pid = waits[c].pid
    /\ waits[a].queued /\ waits[b].queued /\ ~waits[c].queued /\ waits[c].reg
    /\ waits[a].st = "resolved" /\ waits[b].st = "resolved"
    /\ procs[waits[a].pid].exit = MaxExit
    /\ \A w \in {a, b, c} : waits[w].n = MaxExit /\ waits[w].count = 1

\* The fd tables: pipes are created and closed by pid 0 and handed to
\* spawned guests, which read and write through their WASI hosts.
NextFds ==
  \/ KCreatePipe
  \/ \E fd \in FdsOf(kernel, 0, {"pipe_read", "pipe_write"}) : KCloseFd(fd)
  \/ /\ kernel.nextPid <= MaxGuests
     /\ \E req \in Requests(kernel) : \E prog \in Progs(kernel.nextPid) :
          KSpawn(req, prog, TRUE)
  \/ KDispose
  \/ Background

SpecFds == InitKernel /\ [][NextFds]_vars

\* A running guest whose fd 1 is the write end of a pipe whose read end has
\* been closed, and which has output left to write.
CutOff(pid) ==
  /\ procs[pid].st = "ready"
  /\ procs[pid].out # <<>>
  /\ 1 \in DOMAIN procs[pid].io
  /\ procs[pid].io[1].type = "pipe_write"
  /\ pipes[procs[pid].io[1].ref].readClosed

MaxStages == 2

\* The fd table of the shell's own WasiHost.
ShellIoFds ==
  Put(Put(Put(EmptyMap, 0, createNullTarget), 1, BufferRef(1)), 2, BufferRef(2))

Stages(i) ==
  {[kind |-> "builtin", prog |-> p, found |-> TRUE] : p \in Progs(i)}
    \cup {[kind |-> "external", prog |-> p, found |-> f] :
            p \in Progs(i), f \in BOOLEAN}

\* The pipelines of n stages.
RECURSIVE Pipelines(_)
Pipelines(n) ==
  IF n = 0 THEN {<<>>}
  ELSE {Append(p, s) : p \in Pipelines(n - 1), s \in Stages(n)}

InitShell ==
  /\ KernelBoot
  /\ PipeIdle
  /\ FsIdle
  /\ \E n \in 2..MaxStages : \E st \in Pipelines(n) : \E pf \in BOOLEAN :
       \E spawnProcess \in BOOLEAN :
         sh = [ShellOff EXCEPT !.pc = "pipes", !.cpu = "shell",
                               !.stages = st, !.pipefail = pf,
                               !.spawnProcess = spawnProcess]

\* A JavaScript value handed to WebAssembly as an i32: a number is itself,
\* a Promise object converts to NaN and then to 0.
Number(n) == [kind |-> "number", n |-> n]
PromiseOf(t) == [kind |-> "promise", n |-> t]
ToInt32(v) == IF v.kind = "number" THEN v.n ELSE 0

\* host_spawn: spawnProcess tells whether the option opts.spawnProcess was
\* given; t names the promise spawnAsyncProcess returns.
host_spawn(k, callerPid, spawnProcess, req, prog, found, t) ==
  LET fdTable == buildFdTableForSpawn(k, callerPid, req)
      b == spawnAsyncProcess_begin(k, fdTable, prog, found)
  IN IF spawnProcess
     THEN [kernel |-> b.kernel, task |-> b.task, ret |-> PromiseOf(t)]
     ELSE [kernel |-> k, task |-> <<>>, ret |-> Number(-1)]

\* spawn_async of the shell's host interface: the request it serialises.
spawn_async_req(stdin_fd, stdout_fd, stderr_fd) ==
  [stdin_fd |-> stdin_fd, stdout_fd |-> stdout_fd, stderr_fd |-> stderr_fd]

\* A builtin run inline: it writes its output to stdout_fd in one
\* write_to_fd whose result it drops ("emit", as builtin_echo), or reads
\* stdin_fd once, a failed read counting as 0 bytes, and writes what it
\* read ("copy", as builtin_read).
try_builtin(heap, bufs, stdin_fd, stdout_fd, prog) ==
  LET rd  == fdRead(ShellIoFds, heap, stdin_fd, <<MaxBuf>>)
      got == IF rd.errno = WASI_ESUCCESS THEN rd.data ELSE <<>>
      output == IF prog.role = "emit" THEN prog.data ELSE got
      w == fdWrite(ShellIoFds, heap, bufs, stdout_fd, <<output>>)
  IN [pipes |-> w.pipes, buffers |-> w.buffers, exit_code |-> prog.code]

StageCount == Len(sh.stages)
StageStdin(i) == IF i = 1 THEN 0 ELSE sh.fds[i - 1][1]
StageStdout(i) == IF i = StageCount THEN 1 ELSE sh.fds[i][2]
AfterStage(i) == IF i = StageCount THEN "close" ELSE "stage"

ShPipe ==
  /\ sh.cpu = "shell" /\ sh.pc = "pipes"
  /\ LET r == createPipe(kernel, pipes, 0)
         fds == Append(sh.fds, <<r.readFd, r.writeFd>>)
     IN /\ kernel' = r.kernel
        /\ pipes' = r.pipes
        /\ sh' = [sh EXCEPT !.fds = fds,
                            !.pc = IF Len(fds) = StageCount - 1 THEN "stage" ELSE "pipes",
                            !.i = 1]
  /\ UNCHANGED <<buffers, spawns, procs, waits, pipeVars, fsVars, netVars>>

ShBuiltin ==
  /\ sh.cpu = "shell" /\ sh.pc = "stage"
  /\ sh.stages[sh.i].kind = "builtin"
  /\ LET r == try_builtin(pipes, buffers, StageStdin(sh.i), StageStdout(sh.i),
                          sh.stages[sh.i].prog)
     IN /\ pipes' = r.pipes
        /\ buffers' = r.buffers
        /\ sh' = [sh EXCEPT !.stdin_fd = StageStdin(sh.i),
                            !.stdout_fd = StageStdout(sh.i),
                            !.state_last_exit_code = r.exit_code,
                            !.pipefail_code =
                               IF sh.pipefail /\ r.exit_code # 0 THEN r.exit_code ELSE @,
                            !.pc = AfterStage(sh.i),
                            !.i = IF sh.i = StageCount THEN 1 ELSE sh.i + 1]
  /\ UNCHANGED <<kernel, spawns, procs, waits, pipeVars, fsVars, netVars>>

ShSpawn ==
  /\ sh.cpu = "shell" /\ sh.pc = "stage"
  /\ sh.stages[sh.i].kind = "external"
  /\ LET r == host_spawn(kernel, 0, sh.spawnProcess,
                         spawn_async_req(StageStdin(sh.i), StageStdout(sh.i), 2),
                         sh.stages[sh.i].prog, sh.stages[sh.i].found,
                         Len(spawns) + 1)
         pid == ToInt32(r.ret)
     IN IF pid < 0
        THEN \* spawn_async returns Err, which the ? hands to the caller
             /\ sh' = [sh EXCEPT !.pc = "failed", !.cpu = "idle"]
             /\ UNCHANGED <<kernel, spawns>>
        ELSE /\ kernel' = r.kernel
             /\ spawns' = Append(spawns, r.task)
             /\ sh' = [sh EXCEPT !.pids = Append(@, pid),
                                 !.pc = AfterStage(sh.i),
                                 !.i = IF sh.i = StageCount THEN 1 ELSE sh.i + 1]
  /\ UNCHANGED <<pipes, buffers, procs, waits, pipeVars, fsVars, netVars>>

\* One turn of the loop that closes the parent's pipe fds.
ShCloseFds ==
  /\ sh.cpu = "shell" /\ sh.pc = "close"
  /\ LET a == closeFd(kernel, pipes, 0, sh.fds[sh.i][1])
         b == closeFd(a.kernel, a.pipes, 0, sh.fds[sh.i][2])
     IN /\ kernel' = b.kernel
        /\ pipes' = b.pipes
        /\ sh' = [sh EXCEPT !.pc = IF sh.i < Len(sh.fds) THEN "close"
                                   ELSE IF sh.pids = <<>> THEN "finish" ELSE "wait",
                            !.i = IF sh.i < Len(sh.fds) THEN sh.i + 1 ELSE 1]
  /\ UNCHANGED <<buffers, spawns, procs, waits, pipeVars, fsVars, netVars>>

\* host_waitpid: the shell gives up the event loop until the promise of
\* kernel.waitpid is resolved.
ShWaitpid ==
  /\ sh.cpu = "shell" /\ sh.pc = "wait"
  /\ LET w == Len(waits) + 1
         r == waitpid(kernel, sh.pids[sh.i], w)
     IN /\ kernel' = r.kernel
        /\ waits' = Append(waits,
             [pid    |-> sh.pids[sh.i],
              reg    |-> sh.pids[sh.i] \in DOMAIN kernel.processTable,
              queued |-> r.suspended,
              st     |-> IF r.suspended THEN "pending" ELSE "resolved",
              n      |-> r.ret,
              count  |-> IF r.suspended THEN 0 ELSE 1])
  /\ sh' = [sh EXCEPT !.pc = "waiting", !.cpu = "idle"]
  /\ UNCHANGED <<pipes, buffers, spawns, procs, pipeVars, fsVars, netVars>>

ShResume ==
  /\ sh.cpu = "idle" /\ sh.pc = "waiting"
  /\ waits[Len(waits)].st = "resolved"
  /\ LET exit_code == waits[Len(waits)].n
     IN sh' = [sh EXCEPT !.cpu = "shell",
                         !.last_exit_code =
                            IF sh.i = Len(sh.pids) THEN exit_code ELSE @,
                         !.pipefail_code =
                            IF sh.pipefail /\ exit_code # 0 THEN exit_code ELSE @,
                         !.pc = IF sh.i = Len(sh.pids) THEN "finish" ELSE "wait",
                         !.i = sh.i + 1]
  /\ UNCHANGED <<kernelVars, pipeVars, fsVars, netVars>>

\* The end of the pipeline and of ShellInstance.run, which reads the
\* captured stdout of the shell's host.
ShFinish ==
  /\ sh.cpu = "shell" /\ sh.pc = "finish"
  /\ LET final_code == IF sh.pipefail /\ sh.pipefail_code # 0
                       THEN sh.pipefail_code ELSE sh.last_exit_code
     IN sh' = [sh EXCEPT !.pc = "done", !.cpu = "idle",
                         !.stdin_fd = 0, !.stdout_fd = 1,
                         !.state_last_exit_code = final_code,
                         !.result = [done |-> TRUE, exitCode |-> final_code,
                                     stdout |-> bufferToString(buffers[1])]]
  /\ UNCHANGED <<kernelVars, pipeVars, fsVars, netVars>>

NextShell ==
  \/ ShPipe
  \/ ShBuiltin
  \/ ShSpawn
  \/ ShCloseFds
  \/ ShWaitpid
  \/ ShResume
  \/ ShFinish
  \/ Background

SpecShell == InitShell /\ [][NextShell]_vars

\* C2: when a two-stage pipeline whose first stage writes D and exits 0 and
\* whose second stage copies its input to its output and exits 0 has run,
\* its exit code is 0 and the captured stdout is D.
C2_PipelineCopies ==
  (/\ sh.result.done
   /\ Len(sh.stages) = 2
   /\ \A i \in 1..2 : sh.stages[i].found /\ sh.stages[i].prog.code = 0
   /\ sh.stages[1].prog.role = "emit"
   /\ sh.stages[2].prog.role = "copy")
    => /\ sh.result.exitCode = 0
       /\ sh.result.stdout = sh.stages[1].prog.data

\* C3: a waitpid of the shell on the pid its spawn returned is resolved only
\* once the spawned child has exited, and with that child's exit code.
C3_WaitReturnsChildCode ==
  \A j \in DOMAIN waits :
    (waits[j].st = "resolved" /\ ~(spawns[j].st = "resolved" /\ spawns[j].ret = -1))
      => /\ spawns[j].pid \in DOMAIN procs
         /\ procs[spawns[j].pid].st \in {"exited", "reaped"}
         /\ waits[j].n = procs[spawns[j].pid].exit

\* The exit code each stage of the pipeline ends with.
StageCode(i) == sh.stages[i].prog.code

\* C11: a finished pipeline whose commands were all found reports the exit
\* code of its last stage, or, under pipefail, the exit code of the last
\* stage that ended non-zero when there is one.
C11_PipelineExitCode ==
  (sh.result.done /\ \A i \in DOMAIN sh.stages : sh.stages[i].found)
    => LET failed == {i \in DOMAIN sh.stages : StageCode(i) # 0}
           lastCode == StageCode(Len(sh.stages))
           lastFailed == CHOOSE i \in failed : \A j \in failed : j <= i
       IN sh.result.exitCode =
            IF sh.pipefail /\ failed # {} THEN StageCode(lastFailed) ELSE lastCode

(***************************************************************************)
(* The in-memory VFS (vfs.ts, snapshot.ts).  A path string is the sequence *)
(* of the parts String.split('/') gives: "/tmp/a" is <<"", "tmp", "a">>,   *)
(* "/" is <<"", "">> and the relative "a/b" is <<"a", "b">>.  Inode        *)
(* objects live in a heap h indexed by object identity; a directory's      *)
(* children map holds identities.                                          *)
(***************************************************************************)
MAX_SYMLINK_DEPTH == 8   \* 40 in the source, scaled down

OK == "OK"

Max(a, b) == IF a > b THEN a ELSE b

\* inode.ts: the three inode constructors and their default permissions.
DirMode == 493       \* 0o755
FileMode == 420      \* 0o644
LinkMode == 511      \* 0o777
createDirInode(permissions) ==
  [type |-> "dir", permissions |-> permissions, content |-> <<>>,
   target |-> <<>>, children |-> EmptyMap]
createFileInode(content) ==
  [type |-> "file", permissions |-> FileMode, content |-> content,
   target |-> <<>>, children |-> EmptyMap]
createSymlinkInode(target) ==
  [type |-> "symlink", permissions |-> LinkMode, content |-> <<>>,
   target |-> target, children |-> EmptyMap]

\* The identity the next object created in h gets.
NewId(h) == Len(h) + 1

startsWithSlash(path) == Len(path) >= 2 /\ path[1] = ""

\* parsePath; segments is the list built so far.
RECURSIVE parseParts(_, _)
parseParts(parts, segments) ==
  IF parts = <<>> THEN segments
  ELSE LET part == Head(parts)
       IN parseParts(Tail(parts),
            IF part = "" \/ part = "." THEN segments
            ELSE IF part = ".."
                 THEN (IF segments = <<>> THEN <<>>
                       ELSE SubSeq(segments, 1, Len(segments) - 1))
                 ELSE Append(segments, part))

parsePath(path) ==
  IF ~startsWithSlash(path)
  THEN [err |-> "ENOENT", segments |-> <<>>]
  ELSE [err |-> OK, segments |-> parseParts(path, <<>>)]

\* The outcome of a resolution: the inode found, or the VfsError thrown and
\* its message, and the largest value the depth counter took.
Found(inode, depth) == [err |-> OK, reason |-> "", inode |-> inode, deep |-> depth]
Thrown(err, reason, depth) == [err |-> err, reason |-> reason, inode |-> 0, deep |-> depth]

\* VFS.resolve.  followLink is the step it takes at a symlink, resolveWalk
\* its loop from segment segs[1] on, current being the inode reached so
\* far, followed by the leaf step.
RECURSIVE resolve(_, _, _, _, _)

\* followLink giving up two levels later.
followLink_late(h, root, inode, depth) ==
  IF depth >= MAX_SYMLINK_DEPTH + 2
  THEN Thrown("ENOENT", "too many symlinks", depth)
  ELSE resolve(h, root, h[inode].target, TRUE, depth + 1)

followLink(h, root, inode, depth) ==
  IF depth >= MAX_SYMLINK_DEPTH
  THEN Thrown("ENOENT", "too many symlinks", depth)
  ELSE resolve(h, root, h[inode].target, TRUE, depth + 1)

RECURSIVE resolveWalk(_, _, _, _, _, _)
resolveWalk(h, root, segs, current, depth, followSymlinks) ==
  IF segs = <<>>
  THEN IF followSymlinks /\ h[current].type = "symlink"
       THEN followLink(h, root, current, depth)
       ELSE Found(current, depth)
  ELSE LET isLink == h[current].type = "symlink"
           c == IF isLink THEN followLink(h, root, current, depth)
                ELSE Found(current, depth)
       IN IF c.err # OK THEN c
          ELSE IF h[c.inode].type # "dir"
          THEN Thrown("ENOTDIR", "not a directory", c.deep)
          ELSE IF Head(segs) \notin DOMAIN h[c.inode].children
          THEN Thrown("ENOENT", "no such file or directory", c.deep)
          ELSE LET r == resolveWalk(h, root, Tail(segs),
                                    h[c.inode].children[Head(segs)],
                                    IF isLink THEN depth + 1 ELSE depth,
                                    followSymlinks)
               IN [r EXCEPT !.deep = Max(r.deep, c.deep)]

resolve(h, root, path, followSymlinks, depth) ==
  LET p == parsePath(path)
  IN IF p.err # OK THEN Thrown(p.err, "not an absolute path", depth)
     ELSE resolveWalk(h, root, p.segments, root, depth, followSymlinks)

\* VFS.resolveParent: the parent directory and the leaf name.
resolveParent(h, root, path) ==
  LET p == parsePath(path)
      n == Len(p.segments)
  IN IF p.err # OK THEN [err |-> p.err, parent |-> 0, name |-> ""]
     ELSE IF n = 0 THEN [err |-> "EEXIST", parent |-> 0, name |-> ""]
     ELSE LET r == resolveWalk(h, root, SubSeq(p.segments, 1, n - 1), root, 0, TRUE)
          IN IF r.err # OK THEN [err |-> r.err, parent |-> 0, name |-> ""]
             ELSE IF h[r.inode].type # "dir"
             THEN [err |-> "ENOTDIR", parent |-> 0, name |-> ""]
             ELSE [err |-> OK, parent |-> r.inode, name |-> p.segments[n]]

\* A number that is not one: what ++ leaves in a field that was never set.
NaN == -2
PlusOne(x) == IF x = undefined \/ x = NaN THEN NaN ELSE x + 1
MinusOne(x) == IF x = undefined \/ x = NaN THEN NaN ELSE x - 1

\* An absent writablePaths option (a list that holds no path string).
NoPaths == << <<undefined>> >>
DefaultWritablePaths == << <<"", "home", "user">>, <<"", "tmp">> >>

\* normalized === prefix || normalized.startsWith(prefix + '/'), for the
\* normalized path '/' + segments.join('/').
underPrefix(segments, prefix) ==
  LET normalized == <<"">> \o segments
  IN \/ normalized = prefix
     \/ /\ Len(normalized) > Len(prefix)
        /\ SubSeq(normalized, 1, Len(prefix)) = prefix

\* The result of a VFS call: the VFS and heap it leaves, the VfsError kind
\* it threw (OK: none).
Ret(v, h, err) == [v |-> v, h |-> h, err |-> err]

\* VFS.assertWritable: the error it throws.
assertWritable(v, path) ==
  IF v.initializing \/ v.writablePaths = NoPaths THEN OK
  ELSE LET p == parsePath(path)
       IN IF p.err # OK THEN p.err
          ELSE IF \E i \in DOMAIN v.writablePaths :
                    underPrefix(p.segments, v.writablePaths[i])
               THEN OK
               ELSE "EROFS"

\* The walk of mkdirInternal and mkdirp over the segments left, from the
\* directory current: made counts the directories created.
RECURSIVE mkdirWalk(_, _, _, _)
mkdirWalk(h, current, segs, made) ==
  IF segs = <<>> THEN [h |-> h, err |-> OK, made |-> made]
  ELSE IF Head(segs) \in DOMAIN h[current].children
  THEN LET existing == h[current].children[Head(segs)]
       IN IF h[existing].type # "dir"
          THEN [h |-> h, err |-> "ENOTDIR", made |-> made]
          ELSE mkdirWalk(h, existing, Tail(segs), made)
  ELSE LET newDir == NewId(h)
           h1 == Append(h, createDirInode(DirMode))
           h2 == [h1 EXCEPT ![current].children = Put(@, Head(segs), newDir)]
       IN mkdirWalk(h2, newDir, Tail(segs), made + 1)

mkdirInternal(v, h, path) ==
  LET p == parsePath(path)
      w == mkdirWalk(h, v.root, p.segments, 0)
  IN IF p.err # OK THEN Ret(v, h, p.err)
     ELSE IF w.err # OK THEN Ret(v, h, w.err)
     ELSE Ret([v EXCEPT !.currentFileCount = @ + w.made], w.h, OK)

DefaultLayout ==
  << <<"", "home">>, <<"", "home", "user">>, <<"", "tmp">>, <<"", "bin">>,
     <<"", "usr">>, <<"", "usr", "bin">>, <<"", "mnt">> >>

RECURSIVE initDefaultLayout(_, _, _)
initDefaultLayout(v, h, dirs) ==
  IF dirs = <<>> THEN Ret(v, h, OK)
  ELSE LET r == mkdirInternal(v, h, Head(dirs))
       IN initDefaultLayout(r.v, r.h, Tail(dirs))

\* new VFS(options) in the heap h.
VFS(h, options) ==
  LET v == [root             |-> NewId(h),
            snapshots        |-> <<>>,
            nextSnapId       |-> 1,
            totalBytes       |-> 0,
            fsLimitBytes     |-> options.fsLimitBytes,
            fileCountLimit   |-> options.fileCount,
            currentFileCount |-> 0,
            writablePaths    |-> IF options.writablePaths # NoPaths
                                 THEN options.writablePaths
                                 ELSE DefaultWritablePaths,
            initializing     |-> TRUE]
      r == initDefaultLayout(v, Append(h, createDirInode(DirMode)), DefaultLayout)
  IN Ret([r.v EXCEPT !.initializing = FALSE], r.h, OK)

\* VFS.fromRoot.
fromRoot(root) ==
  [root             |-> root,
   snapshots        |-> <<>>,
   nextSnapId       |-> 1,
   totalBytes       |-> 0,
   fsLimitBytes     |-> undefined,
   fileCountLimit   |-> undefined,
   currentFileCount |-> undefined,
   writablePaths    |-> NoPaths,
   initializing     |-> FALSE]

writeFile(v, h, path, data) ==
  LET w == assertWritable(v, path)
      rp == resolveParent(h, v.root, path)
  IN IF w # OK THEN Ret(v, h, w)
     ELSE IF rp.err # OK THEN Ret(v, h, rp.err)
     ELSE
       LET kids == h[rp.parent].children
           has == rp.name \in DOMAIN kids
           existing == kids[rp.name]
           isFile == has /\ h[existing].type = "file"
           oldSize == IF isFile THEN Len(h[existing].content) ELSE 0
           delta == Len(data) - oldSize
       IN IF has /\ h[existing].type = "dir" THEN Ret(v, h, "EISDIR")
          ELSE IF v.fsLimitBytes # undefined /\ v.totalBytes + delta > v.fsLimitBytes
          THEN Ret(v, h, "ENOSPC")
          ELSE IF isFile
          THEN Ret([v EXCEPT !.totalBytes = @ + delta],
                   [h EXCEPT ![existing].content = data], OK)
          ELSE IF v.fileCountLimit # undefined
                  /\ v.currentFileCount >= v.fileCountLimit
          THEN Ret(v, h, "ENOSPC")
          ELSE Ret([v EXCEPT !.totalBytes = @ + delta,
                             !.currentFileCount = PlusOne(@)],
                   [Append(h, createFileInode(data))
                      EXCEPT ![rp.parent].children = Put(@, rp.name, NewId(h))],
                   OK)

mkdir(v, h, path) ==
  LET w == assertWritable(v, path)
      rp == resolveParent(h, v.root, path)
  IN IF w # OK THEN Ret(v, h, w)
     ELSE IF rp.err # OK THEN Ret(v, h, rp.err)
     ELSE IF rp.name \in DOMAIN h[rp.parent].children THEN Ret(v, h, "EEXIST")
     ELSE IF v.fileCountLimit # undefined /\ v.currentFileCount >= v.fileCountLimit
     THEN Ret(v, h, "ENOSPC")
     ELSE Ret([v EXCEPT !.currentFileCount = PlusOne(@)],
              [Append(h, createDirInode(DirMode))
                 EXCEPT ![rp.parent].children = Put(@, rp.name, NewId(h))],
              OK)

mkdirp(v, h, path) ==
  LET w == assertWritable(v, path)
      p == parsePath(path)
      r == mkdirWalk(h, v.root, p.segments, 0)
  IN IF w # OK THEN Ret(v, h, w)
     ELSE IF p.err # OK THEN Ret(v, h, p.err)
     ELSE IF r.err # OK THEN Ret(v, h, r.err)
     ELSE Ret(v, r.h, OK)

unlink(v, h, path) ==
  LET w == assertWritable(v, path)
      rp == resolveParent(h, v.root, path)
  IN IF w # OK THEN Ret(v, h, w)
     ELSE IF rp.err # OK THEN Ret(v, h, rp.err)
     ELSE IF rp.name \notin DOMAIN h[rp.parent].children THEN Ret(v, h, "ENOENT")
     ELSE LET child == h[rp.parent].children[rp.name]
          IN IF h[child].type = "dir" THEN Ret(v, h, "EISDIR")
             ELSE Ret([v EXCEPT !.totalBytes =
                                   IF h[child].type = "file"
                                   THEN @ - Len(h[child].content) ELSE @,
                                !.currentFileCount = MinusOne(@)],
                      [h EXCEPT ![rp.parent].children = Del(@, rp.name)],
                      OK)

rmdir(v, h, path) ==
  LET w == assertWritable(v, path)
      rp == resolveParent(h, v.root, path)
  IN IF w # OK THEN Ret(v, h, w)
     ELSE IF rp.err # OK THEN Ret(v, h, rp.err)
     ELSE IF rp.name \notin DOMAIN h[rp.parent].children THEN Ret(v, h, "ENOENT")
     ELSE LET child == h[rp.parent].children[rp.name]
          IN IF h[child].type # "dir" THEN Ret(v, h, "ENOTDIR")
             ELSE IF DOMAIN h[child].children # {} THEN Ret(v, h, "ENOTEMPTY")
             ELSE Ret(v, [h EXCEPT ![rp.parent].children = Del(@, rp.name)], OK)

rename(v, h, oldPath, newPath) ==
  LET w1 == assertWritable(v, oldPath)
      w2 == assertWritable(v, newPath)
      op == resolveParent(h, v.root, oldPath)
      np == resolveParent(h, v.root, newPath)
  IN IF w1 # OK THEN Ret(v, h, w1)
     ELSE IF w2 # OK THEN Ret(v, h, w2)
     ELSE IF op.err # OK THEN Ret(v, h, op.err)
     ELSE IF op.name \notin DOMAIN h[op.parent].children THEN Ret(v, h, "ENOENT")
     ELSE IF np.err # OK THEN Ret(v, h, np.err)
     ELSE LET child == h[op.parent].children[op.name]
              h1 == [h EXCEPT ![op.parent].children = Del(@, op.name)]
          IN Ret(v, [h1 EXCEPT ![np.parent].children = Put(@, np.name, child)], OK)

symlink(v, h, target, path) ==
  LET w == assertWritable(v, path)
      rp == resolveParent(h, v.root, path)
  IN IF w # OK THEN Ret(v, h, w)
     ELSE IF rp.err # OK THEN Ret(v, h, rp.err)
     ELSE IF rp.name \in DOMAIN h[rp.parent].children THEN Ret(v, h, "EEXIST")
     ELSE Ret(v, [Append(h, createSymlinkInode(target))
                    EXCEPT ![rp.parent].children = Put(@, rp.name, NewId(h))],
              OK)

chmod(v, h, path, mode) ==
  LET r == resolve(h, v.root, path, TRUE, 0)
  IN IF r.err # OK THEN Ret(v, h, r.err)
     ELSE Ret(v, [h EXCEPT ![r.inode].permissions = mode], OK)

\* The elements of a finite set, in a fixed order.
RECURSIVE SeqOf(_)
SeqOf(S) ==
  IF S = {} THEN <<>>
  ELSE LET x == CHOOSE y \in S : TRUE IN <<x>> \o SeqOf(S \ {x})

IndexOf(seq, x) == CHOOSE i \in DOMAIN seq : seq[i] = x

\* The inode objects reachable through children maps from the objects in
\* todo, each once, parents before children.
RECURSIVE Visit(_, _, _)
Visit(h, todo, order) ==
  IF todo = <<>> THEN order
  ELSE LET id == Head(todo)
           names == SeqOf(DOMAIN h[id].children)
       IN IF \E i \in DOMAIN order : order[i] = id
          THEN Visit(h, Tail(todo), order)
          ELSE Visit(h, [i \in DOMAIN names |-> h[id].children[names[i]]] \o Tail(todo),
                     Append(order, id))

\* deepCloneInode with file inodes handed over instead of copied.
deepCloneInode_sharedFiles(h, inode) ==
  LET order == Visit(h, <<inode>>, <<>>)
      cloneOf(x) == IF h[x].type = "file" THEN x ELSE Len(h) + IndexOf(order, x)
      copy(x) ==
        IF h[x].type = "dir"
        THEN [createDirInode(h[x].permissions) EXCEPT
                !.children = [n \in DOMAIN h[x].children |-> cloneOf(h[x].children[n])]]
        ELSE h[x]
  IN [h |-> h \o [i \in 1..Len(order) |-> copy(order[i])], inode |-> Len(h) + 1]

\* deepCloneInode: a new object for every inode under the given one, the
\* new directories' maps naming the new objects; permissions are copied,
\* file content and symlink targets are handed over by reference.
deepCloneInode(h, inode) ==
  LET order == Visit(h, <<inode>>, <<>>)
      cloneOf(x) == Len(h) + IndexOf(order, x)
      copy(x) ==
        IF h[x].type = "dir"
        THEN [createDirInode(h[x].permissions) EXCEPT
                !.children = [n \in DOMAIN h[x].children |-> cloneOf(h[x].children[n])]]
        ELSE IF h[x].type = "file"
        THEN [createFileInode(h[x].content) EXCEPT !.permissions = h[x].permissions]
        ELSE [createSymlinkInode(h[x].target) EXCEPT !.permissions = h[x].permissions]
  IN [h |-> h \o [i \in 1..Len(order) |-> copy(order[i])], inode |-> Len(h) + 1]

deepCloneRoot(h, root) == deepCloneInode(h, root)

\* VFS.snapshot: the id it returns is the index of the saved root.
snapshot(v, h) ==
  LET c == deepCloneRoot(h, v.root)
  IN Ret([v EXCEPT !.nextSnapId = @ + 1, !.snapshots = Append(@, c.inode)], c.h, OK)

restore(v, h, id) ==
  IF id \notin DOMAIN v.snapshots THEN Ret(v, h, "no such snapshot")
  ELSE LET c == deepCloneRoot(h, v.snapshots[id])
       IN Ret([v EXCEPT !.root = c.inode], c.h, OK)

\* VFS.cowClone: v is the VFS it returns.
cowClone(v, h) ==
  LET c == deepCloneRoot(h, v.root)
  IN Ret(fromRoot(c.inode), c.h, OK)

\* Object identities carry no meaning: the heap is kept with the objects
\* that v and t (two VFS instances, root 0: none) can still reach, numbered
\* in the order Visit meets them.
Canon(h, v, t) ==
  LET roots == <<v.root>> \o v.snapshots
                 \o (IF t.root = 0 THEN <<>> ELSE <<t.root>> \o t.snapshots)
      order == Visit(h, roots, <<>>)
      to(x) == IndexOf(order, x)
      renamed(w) == [w EXCEPT !.root = to(@),
                              !.snapshots = [i \in DOMAIN @ |-> to(@[i])]]
  IN [h |-> [i \in 1..Len(order) |->
               [h[order[i]] EXCEPT
                  !.children = [n \in DOMAIN @ |-> to(@[n])]]],
      v |-> renamed(v),
      t |-> IF t.root = 0 THEN t ELSE renamed(t)]

\* What a VFS shows: every path that names an entry (walking children maps
\* only) with the entry's type, permissions, bytes and link target.
RECURSIVE Entries(_, _, _)
Entries(h, inode, path) ==
  {<<path, inode>>} \cup
    UNION {Entries(h, h[inode].children[n], Append(path, n)) :
             n \in DOMAIN h[inode].children}

View(h, root) ==
  {[path |-> e[1], type |-> h[e[2]].type, permissions |-> h[e[2]].permissions,
    content |-> h[e[2]].content, target |-> h[e[2]].target] :
     e \in Entries(h, root, <<>>)}

(***************************************************************************)
(* Calls on a VFS and on its cowClone.                                     *)
(***************************************************************************)
MaxFile == 1      \* longest file content written
MaxOps == 3       \* calls made after construction
MaxSnaps == 1     \* snapshots taken per VFS

FsOptions ==
  {[fsLimitBytes |-> l, fileCount |-> undefined, writablePaths |-> NoPaths] :
     l \in {undefined, MaxFile}}

FileData == {[i \in 1..n |-> 10 * n + i] : n \in 0..MaxFile}

TmpA == <<"", "tmp", "a">>
TmpB == <<"", "tmp", "b">>
BinA == <<"", "bin", "a">>
Bin == <<"", "bin">>
OpPaths == {TmpA, TmpB, BinA}
WorkPaths == {TmpA, TmpB}
LinkTargets == {TmpA, TmpB}
ChmodModes == {LinkMode}

Target(on) == IF on = "vfs" THEN vfs ELSE twin
Live(on) == Target(on).root # 0

\* A call of op on the VFS named on returned r (id: the snapshot id given
\* to restore); tk is the snapshot record after it.
FsCall(on, op, id, r, tk) ==
  /\ fsLast.left > 0
  /\ LET c == IF on = "vfs" THEN Canon(r.h, r.v, twin) ELSE Canon(r.h, vfs, r.v)
         after == IF on = "vfs" THEN c.v ELSE c.t
     IN /\ inodes' = c.h
        /\ vfs' = c.v
        /\ twin' = c.t
        /\ fsLast' = [on |-> on, op |-> op, id |-> id, ok |-> r.err = OK,
                      changed |-> ~Live(on) \/ View(c.h, after.root) # View(inodes, Target(on).root),
                      left |-> fsLast.left - 1]
  /\ taken' = tk
  /\ UNCHANGED <<imp, sandbox, pipeVars, kernelVars, shellVars, netVars>>

\* A VFS just constructed with the options o, budget calls to come.
NewVfs(o, budget) ==
  /\ bridge = NoBridge
  /\ sandbox = NoSandbox
  /\ KernelIdle
  /\ PipeIdle
  /\ LET r == VFS(<<>>, o)
         c == Canon(r.h, r.v, [root |-> 0])
     IN inodes = c.h /\ vfs = c.v
  /\ twin = [root |-> 0]
  /\ taken = <<>>
  /\ fsLast = [on |-> "vfs", op |-> "new", id |-> 0, ok |-> TRUE, changed |-> FALSE,
               left |-> budget]
  /\ imp = [op |-> "none", n |-> 0]

InitVfs == \E o \in FsOptions : NewVfs(o, MaxOps)

WriteFile(on, path, data) ==
  Live(on) /\ FsCall(on, "writeFile", 0, writeFile(Target(on), inodes, path, data), taken)
Mkdir(on, path) ==
  Live(on) /\ FsCall(on, "mkdir", 0, mkdir(Target(on), inodes, path), taken)
Mkdirp(on, path) ==
  Live(on) /\ FsCall(on, "mkdirp", 0, mkdirp(Target(on), inodes, path), taken)
Unlink(on, path) ==
  Live(on) /\ FsCall(on, "unlink", 0, unlink(Target(on), inodes, path), taken)
Rmdir(on, path) ==
  Live(on) /\ FsCall(on, "rmdir", 0, rmdir(Target(on), inodes, path), taken)
Rename(on, oldPath, newPath) ==
  Live(on) /\ FsCall(on, "rename", 0,
                     rename(Target(on), inodes, oldPath, newPath), taken)
Symlink(on, target, path) ==
  Live(on) /\ FsCall(on, "symlink", 0, symlink(Target(on), inodes, target, path), taken)
Chmod(on, path, mode) ==
  Live(on) /\ FsCall(on, "chmod", 0, chmod(Target(on), inodes, path, mode), taken)
Snapshot(on) ==
  /\ Live(on)
  /\ Len(Target(on).snapshots) < MaxSnaps
  /\ FsCall(on, "snapshot", 0, snapshot(Target(on), inodes),
            IF on = "vfs" THEN Append(taken, View(inodes, vfs.root)) ELSE taken)
Restore(on, id) ==
  Live(on) /\ FsCall(on, "restore", id, restore(Target(on), inodes, id), taken)
CowClone ==
  /\ Live("vfs") /\ ~Live("twin")
  /\ FsCall("twin", "cowClone", 0, cowClone(vfs, inodes), taken)

\* Every kind of call on the VFS named on: work paths for the calls that take
\* one, pairs the renames made.
Calls(on, work, pairs) ==
  \/ \E path \in work, data \in FileData : WriteFile(on, path, data)
  \/ \E path \in work : Mkdir(on, path)
  \/ \E path \in work : Mkdirp(on, path)
  \/ \E path \in work : Unlink(on, path)
  \/ \E path \in work : Rmdir(on, path)
  \/ \E pair \in pairs : Rename(on, pair[1], pair[2])
  \/ \E target \in LinkTargets, path \in work : Symlink(on, target, path)
  \/ \E path \in work, mode \in ChmodModes : Chmod(on, path, mode)
  \/ Snapshot(on)
  \/ \E id \in 1..MaxSnaps : Restore(on, id)

NextVfs == Calls("vfs", WorkPaths, WorkPaths \X WorkPaths)

SpecVfs == InitVfs /\ [][NextVfs]_vars

\* The normalized path lies under none of the writable prefixes of v.
Outside(v, path) ==
  \A i \in DOMAIN v.writablePaths :
    ~underPrefix(parsePath(path).segments, v.writablePaths[i])

\* What the mutating calls with the given path do in the present state.
MutatingCalls(path) ==
  {writeFile(vfs, inodes, path, data) : data \in FileData}
    \cup {symlink(vfs, inodes, target, path) : target \in LinkTargets}
    \cup {chmod(vfs, inodes, path, mode) : mode \in ChmodModes}
    \cup {mkdir(vfs, inodes, path), mkdirp(vfs, inodes, path),
          unlink(vfs, inodes, path), rmdir(vfs, inodes, path)}

\* r failed with EROFS and left the VFS and every inode as they were.
Refused(r) == r.err = "EROFS" /\ r.v = vfs /\ r.h = inodes

\* C12: outside bypass scopes, each of writeFile, mkdir, mkdirp, unlink,
\* rmdir, symlink and chmod on a path outside the writable set, and rename
\* with either path outside it, fails with EROFS and changes nothing; with
\* the paths inside the writable set none of them fails with EROFS.
C12_ReadOnlyOutsideWritable ==
  (Live("vfs") /\ ~vfs.initializing /\ vfs.writablePaths # NoPaths)
    => /\ \A path \in OpPaths \cup {Bin} : \A r \in MutatingCalls(path) :
            IF Outside(vfs, path) THEN Refused(r) ELSE r.err # "EROFS"
       /\ \A oldPath \in OpPaths, newPath \in OpPaths :
            LET r == rename(vfs, inodes, oldPath, newPath)
            IN IF Outside(vfs, oldPath) \/ Outside(vfs, newPath)
               THEN Refused(r) ELSE r.err # "EROFS"

(***************************************************************************)
(* The byte quota: writeFile, unlink, rename, snapshot and restore on a    *)
(* VFS with fsLimitBytes set.                                              *)
(***************************************************************************)
MaxQuotaOps == 5

InitQuota ==
  NewVfs([fsLimitBytes |-> MaxFile, fileCount |-> undefined,
          writablePaths |-> NoPaths], MaxQuotaOps)

NextQuota ==
  \/ \E path \in WorkPaths, data \in FileData : WriteFile("vfs", path, data)
  \/ \E path \in WorkPaths : Unlink("vfs", path)
  \/ \E oldPath \in WorkPaths, newPath \in WorkPaths : Rename("vfs", oldPath, newPath)
  \/ Snapshot("vfs")
  \/ \E id \in 1..MaxSnaps : Restore("vfs", id)

SpecQuota == InitQuota /\ [][NextQuota]_vars

RECURSIVE SumLen(_)
SumLen(S) ==
  IF S = {} THEN 0
  ELSE LET e == CHOOSE x \in S : TRUE IN Len(e.content) + SumLen(S \ {e})

\* The sum of the content lengths of the files in the live tree of v.
LiveBytes(h, v) == SumLen({e \in View(h, v.root) : e.type = "file"})

\* C13: with a byte limit set, the files of the live tree hold at most
\* fsLimitBytes bytes in every reachable state, and a writeFile that would
\* take them above it fails with ENOSPC.
C13_BytesWithinLimit ==
  (Live("vfs") /\ vfs.fsLimitBytes # undefined)
    => /\ LiveBytes(inodes, vfs) <= vfs.fsLimitBytes
       /\ \A path \in WorkPaths, data \in FileData :
            LET r == writeFile(vfs, inodes, path, data)
            IN LiveBytes(r.h, r.v) > vfs.fsLimitBytes => r.err = "ENOSPC"

\* C14: every saved snapshot still shows what the live tree showed when it
\* was taken, restoring it now would make the live tree show exactly that
\* (paths, types, bytes, permissions, link targets), and the restore that
\* was just made did.
C14_RestoreYieldsSnapshot ==
  Live("vfs") =>
    /\ \A id \in DOMAIN vfs.snapshots :
         /\ View(inodes, vfs.snapshots[id]) = taken[id]
         /\ LET r == restore(vfs, inodes, id)
            IN r.err = OK /\ View(r.h, r.v.root) = taken[id]
    /\ (fsLast.op = "restore" /\ fsLast.on = "vfs" /\ fsLast.ok)
         => View(inodes, vfs.root) = taken[fsLast.id]

C14_Witness ==
  /\ fsLast.op = "restore" /\ fsLast.on = "vfs" /\ fsLast.ok /\ fsLast.changed
  /\ View(inodes, vfs.root) = taken[fsLast.id]

\* Whether resolving the segments segs from the inode current comes back
\* to a symlink it is already following (active): "cycle", and otherwise
\* the inode it ends at or "error".
RECURSIVE Chase(_, _, _, _, _, _)
Chase(h, root, segs, current, active, followSymlinks) ==
  LET isLink == h[current].type = "symlink"
      p == parsePath(h[current].target)
      c == IF ~isLink THEN [st |-> "found", inode |-> current]
           ELSE IF current \in active THEN [st |-> "cycle", inode |-> 0]
           ELSE IF p.err # OK THEN [st |-> "error", inode |-> 0]
           ELSE Chase(h, root, p.segments, root, active \cup {current}, TRUE)
  IN IF segs = <<>>
     THEN IF followSymlinks THEN c ELSE [st |-> "found", inode |-> current]
     ELSE IF c.st # "found" THEN c
     ELSE IF h[c.inode].type # "dir" \/ Head(segs) \notin DOMAIN h[c.inode].children
     THEN [st |-> "error", inode |-> 0]
     ELSE Chase(h, root, Tail(segs), h[c.inode].children[Head(segs)], active,
                followSymlinks)

ProbePaths == OpPaths \cup {<<"", "tmp", "a", "b">>, <<"", "tmp", "b", "..", "a", "a">>}

\* C15: resolve has an outcome for every probe path in every reachable
\* tree, its depth counter never passes MAX_SYMLINK_DEPTH, and a resolution
\* that comes back to a symlink it is following fails with ENOENT, too many
\* symlinks.
C15_SymlinkResolutionBounded ==
  Live("vfs") =>
    \A path \in ProbePaths, followSymlinks \in BOOLEAN :
      LET r == resolve(inodes, vfs.root, path, followSymlinks, 0)
          segs == parsePath(path).segments
      IN /\ r.err \in {OK, "ENOENT", "ENOTDIR"}
         /\ r.deep <= MAX_SYMLINK_DEPTH
         /\ Chase(inodes, vfs.root, segs, vfs.root, {}, followSymlinks).st = "cycle"
              => r.err = "ENOENT" /\ r.reason = "too many symlinks"
         /\ Chase(inodes, vfs.root, segs, vfs.root, {}, followSymlinks).st = "found"
              => r.err = OK
                 /\ r.inode = Chase(inodes, vfs.root, segs, vfs.root, {}, followSymlinks).inode

C15_Witness ==
  /\ Live("vfs")
  /\ \E path \in ProbePaths :
       LET r == resolve(inodes, vfs.root, path, TRUE, 0)
       IN /\ r.reason = "too many symlinks"
          /\ r.deep = MAX_SYMLINK_DEPTH
          /\ Len(parsePath(path).segments) = 3

(***************************************************************************)
(* A VFS and its cowClone, calls on either.                                *)
(***************************************************************************)
ClonePairs == {<<TmpA, TmpB>>, <<TmpB, TmpA>>}

NextClone ==
  \/ CowClone
  \/ Calls("vfs", {TmpA}, ClonePairs)
  \/ Calls("twin", {TmpA}, ClonePairs)

SpecClone == InitVfs /\ [][NextClone]_vars

\* C20: once the clone exists, a call on the original leaves everything the
\* clone shows (paths, types, bytes, permissions, link targets) as it was,
\* and a call on the clone, cowClone itself included, leaves everything the
\* original shows as it was.
C20_CloneIndependent ==
  [][/\ (fsLast'.on = "vfs" /\ Live("twin"))
          => View(inodes', twin'.root) = View(inodes, twin.root)
     /\ fsLast'.on = "twin"
          => View(inodes', vfs'.root) = View(inodes, vfs.root)]_vars

C20_Witness ==
  /\ Live("twin")
  /\ fsLast.on = "twin" /\ fsLast.op = "writeFile" /\ fsLast.ok /\ fsLast.changed
  /\ \E e \in View(inodes, vfs.root) :
       /\ e.type = "file"
       /\ \E f \in View(inodes, twin.root) :
            f.path = e.path /\ f.type = "file" /\ f.content # e.content

(***************************************************************************)
(* The state serializer (persistence).  A JavaScript string is the         *)
(* sequence of its characters, a Uint8Array the sequence of its bytes, a   *)
(* uint32 the tuple of its four bytes, least significant first.            *)
(***************************************************************************)
Quote == "\""

\* The base64 alphabet, by sextet value + 1.
Base64Chars ==
  <<"A", "B", "C", "D", "E", "F", "G", "H", "I", "J", "K", "L", "M",
    "N", "O", "P", "Q", "R", "S", "T", "U", "V", "W", "X", "Y", "Z",
    "a", "b", "c", "d", "e", "f", "g", "h", "i", "j", "k", "l", "m",
    "n", "o", "p", "q", "r", "s", "t", "u", "v", "w", "x", "y", "z",
    "0", "1", "2", "3", "4", "5", "6", "7", "8", "9", "+", "/">>

DigitChars == {Base64Chars[i] : i \in 53..62}

\* The punctuation the texts of the model hold, with its character codes.
Punctuation ==
  << <<Quote, 34>>, <<",", 44>>, <<".", 46>>, <<":", 58>>, <<"=", 61>>,
     <<"[", 91>>, <<"]", 93>>, <<"_", 95>>, <<"{", 123>>, <<"}", 125>> >>

\* U+FFFD, which TextDecoder puts for a byte that is no character.
Replacement == "U+FFFD"

Characters == {Base64Chars[i] : i \in DOMAIN Base64Chars}
                \cup {Punctuation[i][1] : i \in DOMAIN Punctuation}

\* The character codes (all are ASCII), and the character of each byte.
CodeOf ==
  [c \in Characters |->
     IF \E i \in DOMAIN Base64Chars : Base64Chars[i] = c
     THEN LET i == CHOOSE i \in DOMAIN Base64Chars : Base64Chars[i] = c
          IN IF i <= 26 THEN 64 + i
             ELSE IF i <= 52 THEN 70 + i
             ELSE IF i <= 62 THEN i - 5
             ELSE IF i = 63 THEN 43 ELSE 47
     ELSE Punctuation[CHOOSE i \in DOMAIN Punctuation : Punctuation[i][1] = c][2]]

CharOf ==
  [b \in 0..255 |->
     IF \E c \in Characters : CodeOf[c] = b
     THEN CHOOSE c \in Characters : CodeOf[c] = b
     ELSE Replacement]

\* String.charCodeAt / TextEncoder on one character, String.fromCharCode /
\* TextDecoder on one byte.
charCodeAt(c) == IF c \in Characters THEN CodeOf[c] ELSE 239
fromCharCode(b) == CharOf[b]

TextEncoder(string) == [i \in DOMAIN string |-> charCodeAt(string[i])]
TextDecoder(bytes) == [i \in DOMAIN bytes |-> fromCharCode(bytes[i])]

\* btoa on the characters of the given codes, three bytes at a time.
RECURSIVE toBase64(_)
toBase64(bytes) ==
  LET n == Len(bytes)
      b1 == bytes[1]
      b2 == IF n >= 2 THEN bytes[2] ELSE 0
      b3 == IF n >= 3 THEN bytes[3] ELSE 0
      sextet(x) == Base64Chars[x + 1]
  IN IF n = 0 THEN <<>>
     ELSE <<sextet(b1 \div 4),
            sextet((b1 % 4) * 16 + b2 \div 16),
            IF n >= 2 THEN sextet((b2 % 16) * 4 + b3 \div 64) ELSE "=",
            IF n >= 3 THEN sextet(b3 % 64) ELSE "=">>
          \o (IF n > 3 THEN toBase64(SubSeq(bytes, 4, n)) ELSE <<>>)

\* atob: the sextets of the text, its padding removed, four at a time; a
\* character outside the alphabet or a length of 1 mod 4 is an
\* InvalidCharacterError.
RECURSIVE atobGroups(_)
atobGroups(sextets) ==
  LET n == Len(sextets)
      s1 == sextets[1]
      s2 == sextets[2]
      s3 == IF n >= 3 THEN sextets[3] ELSE 0
      s4 == IF n >= 4 THEN sextets[4] ELSE 0
  IN IF n = 0 THEN <<>>
     ELSE <<s1 * 4 + s2 \div 16>>
          \o (IF n >= 3 THEN <<(s2 % 16) * 16 + s3 \div 4>> ELSE <<>>)
          \o (IF n >= 4 THEN <<(s3 % 4) * 64 + s4>> ELSE <<>>)
          \o (IF n > 4 THEN atobGroups(SubSeq(sextets, 5, n)) ELSE <<>>)

fromBase64(b64) ==
  LET n == Len(b64)
      pad == IF n % 4 = 0 /\ n > 0 /\ b64[n] = "="
             THEN (IF b64[n - 1] = "=" THEN 2 ELSE 1)
             ELSE 0
      text == SubSeq(b64, 1, n - pad)
      valid == /\ Len(text) % 4 # 1
               /\ \A i \in DOMAIN text : \E k \in DOMAIN Base64Chars : Base64Chars[k] = text[i]
  IN IF ~valid THEN [err |-> "InvalidCharacterError", bytes |-> <<>>]
     ELSE [err |-> OK,
           bytes |-> atobGroups([i \in DOMAIN text |->
                       (CHOOSE k \in DOMAIN Base64Chars : Base64Chars[k] = text[i]) - 1])]

\* The bytes of a uint32 below 2^24, and bitwise operations on uint32.
Uint32(n) == <<n % 256, (n \div 256) % 256, (n \div 65536) % 256, 0>>

RECURSIVE XorBits(_, _, _)
XorBits(a, b, n) ==
  IF n = 0 THEN 0 ELSE ((a + b) % 2) + 2 * XorBits(a \div 2, b \div 2, n - 1)

XorTable == [a \in 0..255 |-> [b \in 0..255 |-> XorBits(a, b, 8)]]
Xor8(a, b) == XorTable[a][b]
Xor32(x, y) == [i \in 1..4 |-> Xor8(x[i], y[i])]
Shr1(x) == [i \in 1..4 |-> (x[i] \div 2) + (IF i < 4 THEN (x[i + 1] % 2) * 128 ELSE 0)]
Shr8(x) == <<x[2], x[3], x[4], 0>>
AllOnes == <<255, 255, 255, 255>>
Polynomial == <<32, 131, 184, 237>>     \* 0xEDB88320

MAGIC == <<87, 83, 78, 68>>      \* "WSND"
FORMAT_VERSION == 2
HEADER_SIZE_V1 == 8
HEADER_SIZE_V2 == 12

\* c after j more rounds of the table's inner loop.
RECURSIVE TableEntry(_, _)
TableEntry(c, j) ==
  IF j = 0 THEN c
  ELSE TableEntry(IF c[1] % 2 = 1 THEN Xor32(Polynomial, Shr1(c)) ELSE Shr1(c), j - 1)

CRC32_TABLE == [i \in 0..255 |-> TableEntry(<<i, 0, 0, 0>>, 8)]

\* The loop of crc32 over data[lo..hi], started with crc.
RECURSIVE crcRange(_, _, _, _)
crcRange(crc, data, lo, hi) ==
  IF lo > hi THEN crc
  ELSE IF lo = hi THEN Xor32(CRC32_TABLE[Xor8(crc[1], data[lo])], Shr8(crc))
  ELSE LET mid == (lo + hi) \div 2
           left == crcRange(crc, data, lo, mid)
       IN IF left[1] >= 0 THEN crcRange(left, data, mid + 1, hi) ELSE left

crc32(data) == Xor32(crcRange(AllOnes, data, 1, Len(data)), AllOnes)

\* The characters of the names and words the model uses.
Words ==
  << <<"", <<>> >>,
     <<".", <<".">> >>,
     <<"..", <<".", ".">> >>,
     <<"a", <<"a">> >>,
     <<"b", <<"b">> >>,
     <<"bin", <<"b", "i", "n">> >>,
     <<"home", <<"h", "o", "m", "e">> >>,
     <<"user", <<"u", "s", "e", "r">> >>,
     <<"tmp", <<"t", "m", "p">> >>,
     <<"usr", <<"u", "s", "r">> >>,
     <<"mnt", <<"m", "n", "t">> >>,
     <<"lib", <<"l", "i", "b">> >>,
     <<"python", <<"p", "y", "t", "h", "o", "n">> >>,
     <<"share", <<"s", "h", "a", "r", "e">> >>,
     <<"pkg", <<"p", "k", "g">> >>,
     <<"dev", <<"d", "e", "v">> >>,
     <<"proc", <<"p", "r", "o", "c">> >>,
     <<"dir", <<"d", "i", "r">> >>,
     <<"file", <<"f", "i", "l", "e">> >>,
     <<"path", <<"p", "a", "t", "h">> >>,
     <<"data", <<"d", "a", "t", "a">> >>,
     <<"type", <<"t", "y", "p", "e">> >>,
     <<"permissions", <<"p", "e", "r", "m", "i", "s", "s", "i", "o", "n", "s">> >>,
     <<"version", <<"v", "e", "r", "s", "i", "o", "n">> >>,
     <<"files", <<"f", "i", "l", "e", "s">> >>,
     <<"env", <<"e", "n", "v">> >>,
     <<"K", <<"K">> >>,
     <<"V", <<"V">> >> >>

\* The string of a word, and the word a string spells.
Str(word) == Words[CHOOSE i \in DOMAIN Words : Words[i][1] = word][2]
Word(string) ==
  IF \E i \in DOMAIN Words : Words[i][2] = string
  THEN Words[CHOOSE i \in DOMAIN Words : Words[i][2] = string][1]
  ELSE "?"

\* String.split('/') and Array.join('/').
RECURSIVE split(_)
split(string) ==
  IF \E i \in DOMAIN string : string[i] = "/"
  THEN LET i == CHOOSE i \in DOMAIN string :
                  string[i] = "/" /\ \A k \in 1..(i - 1) : string[k] # "/"
       IN <<SubSeq(string, 1, i - 1)>> \o split(SubSeq(string, i + 1, Len(string)))
  ELSE <<string>>

RECURSIVE join(_)
join(parts) ==
  IF parts = <<>> THEN <<>>
  ELSE IF Len(parts) = 1 THEN parts[1]
  ELSE parts[1] \o <<"/">> \o join(Tail(parts))

\* A path string as the VFS model takes it, and back.
Parts(string) == LET p == split(string) IN [i \in DOMAIN p |-> Word(p[i])]
PathString(parts) == join([i \in DOMAIN parts |-> Str(parts[i])])

\* JavaScript values as JSON holds them.  An object is the list of its
\* members <<key, value>> in insertion order.
JString(string) == [t |-> "string", v |-> string]
JNumber(n) == [t |-> "number", v |-> n]
JArray(elements) == [t |-> "array", v |-> elements]
JObject(members) == [t |-> "object", v |-> members]
JUndefined == [t |-> "undefined", v |-> <<>>]

\* obj[key].
Get(obj, key) ==
  IF obj.t = "object" /\ \E i \in DOMAIN obj.v : obj.v[i][1] = Str(key)
  THEN obj.v[CHOOSE i \in DOMAIN obj.v :
               /\ obj.v[i][1] = Str(key)
               /\ \A k \in DOMAIN obj.v : k > i => obj.v[k][1] # Str(key)][2]
  ELSE JUndefined

\* The decimal digits of a natural number, and back.
RECURSIVE Digits(_)
Digits(n) ==
  IF n < 10 THEN <<Base64Chars[53 + n]>>
  ELSE Digits(n \div 10) \o <<Base64Chars[53 + (n % 10)]>>

RECURSIVE NumberOf(_)
NumberOf(digits) ==
  IF digits = <<>> THEN 0
  ELSE 10 * NumberOf(SubSeq(digits, 1, Len(digits) - 1))
         + charCodeAt(digits[Len(digits)]) - 48

\* JSON.stringify (the strings of the model need no escaping).
RECURSIVE JSONstringify(_)
RECURSIVE stringifyList(_, _)
stringifyList(items, isObject) ==
  IF items = <<>> THEN <<>>
  ELSE (IF isObject
        THEN <<Quote>> \o items[1][1] \o <<Quote, ":">> \o JSONstringify(items[1][2])
        ELSE JSONstringify(items[1]))
       \o (IF Len(items) > 1 THEN <<",">> \o stringifyList(Tail(items), isObject) ELSE <<>>)

JSONstringify(value) ==
  IF value.t = "string" THEN <<Quote>> \o value.v \o <<Quote>>
  ELSE IF value.t = "number" THEN Digits(value.v)
  ELSE IF value.t = "array" THEN <<"[">> \o stringifyList(value.v, FALSE) \o <<"]">>
  ELSE <<"{">> \o stringifyList(value.v, TRUE) \o <<"}">>

\* JSON.parse, by recursive descent: the value that starts at text[i] and
\* the index after it, or a SyntaxError.
At(text, i) == IF i \in DOMAIN text THEN text[i] ELSE "EOF"
SyntaxError == [ok |-> FALSE, v |-> JUndefined, next |-> 0]
Parsed(value, next) == [ok |-> TRUE, v |-> value, next |-> next]

parseString(text, i) ==
  IF At(text, i) # Quote \/ ~\E j \in (i + 1)..Len(text) : text[j] = Quote
  THEN SyntaxError
  ELSE LET j == CHOOSE j \in (i + 1)..Len(text) :
                  text[j] = Quote /\ \A k \in (i + 1)..(j - 1) : text[k] # Quote
       IN Parsed(JString(SubSeq(text, i + 1, j - 1)), j + 1)

parseNumber(text, i) ==
  LET end == CHOOSE k \in i..(Len(text) + 1) :
               /\ At(text, k) \notin DigitChars
               /\ \A m \in i..(k - 1) : text[m] \in DigitChars
  IN IF end = i \/ end - i > 6 \/ (text[i] = "0" /\ end > i + 1)
     THEN SyntaxError
     ELSE Parsed(JNumber(NumberOf(SubSeq(text, i, end - 1))), end)

RECURSIVE parseValue(_, _)
RECURSIVE parseElements(_, _, _)
parseElements(text, i, elements) ==
  LET r == parseValue(text, i)
  IN IF ~r.ok THEN SyntaxError
     ELSE IF At(text, r.next) = ","
     THEN parseElements(text, r.next + 1, Append(elements, r.v))
     ELSE IF At(text, r.next) = "]"
     THEN Parsed(JArray(Append(elements, r.v)), r.next + 1)
     ELSE SyntaxError

RECURSIVE parseMembers(_, _, _)
parseMembers(text, i, members) ==
  LET k == parseString(text, i)
      r == parseValue(text, k.next + 1)
  IN IF ~k.ok \/ At(text, k.next) # ":" THEN SyntaxError
     ELSE IF ~r.ok THEN SyntaxError
     ELSE IF At(text, r.next) = ","
     THEN parseMembers(text, r.next + 1, Append(members, <<k.v.v, r.v>>))
     ELSE IF At(text, r.next) = "}"
     THEN Parsed(JObject(Append(members, <<k.v.v, r.v>>)), r.next + 1)
     ELSE SyntaxError

parseValue(text, i) ==
  LET c == At(text, i)
  IN IF c = Quote THEN parseString(text, i)
     ELSE IF c \in DigitChars THEN parseNumber(text, i)
     ELSE IF c = "["
     THEN (IF At(text, i + 1) = "]" THEN Parsed(JArray(<<>>), i + 2)
           ELSE parseElements(text, i + 1, <<>>))
     ELSE IF c = "{"
     THEN (IF At(text, i + 1) = "}" THEN Parsed(JObject(<<>>), i + 2)
           ELSE parseMembers(text, i + 1, <<>>))
     ELSE SyntaxError

JSONparse(text) ==
  LET r == parseValue(text, 1)
  IN IF r.ok /\ r.next = Len(text) + 1 THEN r ELSE SyntaxError

\* VFS.readdir, stat and readFile, on a path string: the entries as
\* <<name, type>> (in an order of the model's choosing), the permissions,
\* the bytes.
readdir(v, h, path) ==
  LET r == resolve(h, v.root, Parts(path), TRUE, 0)
      names == SeqOf(DOMAIN h[r.inode].children)
  IN IF r.err # OK THEN [err |-> r.err, entries |-> <<>>]
     ELSE IF h[r.inode].type # "dir" THEN [err |-> "ENOTDIR", entries |-> <<>>]
     ELSE [err |-> OK,
           entries |-> [i \in DOMAIN names |->
                          <<names[i], h[h[r.inode].children[names[i]]].type>>]]

stat(v, h, path) == h[resolve(h, v.root, Parts(path), TRUE, 0).inode]

readFile(v, h, path) == h[resolve(h, v.root, Parts(path), TRUE, 0).inode].content

startsWith(string, prefix) ==
  Len(string) >= Len(prefix) /\ SubSeq(string, 1, Len(prefix)) = prefix

EXCLUDED_PREFIXES == <<PathString(<<"", "dev">>), PathString(<<"", "proc">>)>>

SAFE_IMPORT_PREFIXES ==
  <<PathString(<<"", "home">>), PathString(<<"", "tmp">>),
    PathString(<<"", "usr", "lib", "python">>),
    PathString(<<"", "usr", "share", "pkg">>)>>

\* isSafeImportPath: its loop over the parts is that of parsePath.
isSafeImportPath(rawPath) ==
  LET normalized == <<"/">> \o PathString(parseParts(Parts(rawPath), <<>>))
  IN \E i \in DOMAIN SAFE_IMPORT_PREFIXES :
       \/ normalized = SAFE_IMPORT_PREFIXES[i]
       \/ startsWith(normalized, SAFE_IMPORT_PREFIXES[i] \o <<"/">>)

\* The entry walkTree pushes.
FileEntry(path, data, type, permissions) ==
  JObject(<< <<Str("path"), JString(path)>>,
             <<Str("data"), JString(data)>>,
             <<Str("type"), JString(Str(type))>>,
             <<Str("permissions"), JNumber(permissions)>> >>)

\* walkTree: out after the entries left of the directory dirPath.
RECURSIVE walkTree(_, _, _, _, _)
RECURSIVE walkEntries(_, _, _, _, _, _)
walkEntries(v, h, dirPath, entries, out, excludePrefixes) ==
  IF entries = <<>> THEN out
  ELSE
    LET entry == Head(entries)
        childPath == IF dirPath = <<"/">> THEN <<"/">> \o Str(entry[1])
                     ELSE dirPath \o <<"/">> \o Str(entry[1])
        skipped == \E i \in DOMAIN excludePrefixes :
                     \/ childPath = excludePrefixes[i]
                     \/ startsWith(childPath, excludePrefixes[i] \o <<"/">>)
        pushed ==
          IF skipped THEN out
          ELSE IF entry[2] = "dir"
          THEN walkTree(v, h, childPath,
                        Append(out, FileEntry(childPath, <<>>, "dir",
                                              stat(v, h, childPath).permissions)),
                        excludePrefixes)
          ELSE IF entry[2] = "file"
          THEN Append(out, FileEntry(childPath, toBase64(readFile(v, h, childPath)),
                                     "file", stat(v, h, childPath).permissions))
          ELSE out
    IN IF Len(pushed) >= 0
       THEN walkEntries(v, h, dirPath, Tail(entries), pushed, excludePrefixes)
       ELSE out

walkTree(v, h, dirPath, out, excludePrefixes) ==
  walkEntries(v, h, dirPath, readdir(v, h, dirPath).entries, out, excludePrefixes)

\* A Map is the list of its <<key, value>> pairs; NoEnv is an env argument
\* left out.
NoEnv == << <<undefined>> >>

\* Array.from(env) and new Map(array).
ArrayFrom(env) ==
  JArray([i \in DOMAIN env |-> JArray(<<JString(env[i][1]), JString(env[i][2])>>)])

RECURSIVE MapOf(_, _)
MapOf(pairs, map) ==
  IF pairs = <<>> THEN map
  ELSE LET key == pairs[1].v[1].v
           value == pairs[1].v[2].v
       IN MapOf(Tail(pairs),
                IF \E i \in DOMAIN map : map[i][1] = key
                THEN [i \in DOMAIN map |->
                        IF map[i][1] = key THEN <<key, value>> ELSE map[i]]
                ELSE Append(map, <<key, value>>))

\* exportState: the blob.
exportState(v, h, env, excludePaths) ==
  LET files == walkTree(v, h, <<"/">>, <<>>, excludePaths)
      state == JObject(<< <<Str("version"), JNumber(FORMAT_VERSION)>>,
                          <<Str("files"), JArray(files)>> >>
                       \o (IF env # NoEnv /\ Len(env) > 0
                           THEN << <<Str("env"), ArrayFrom(env)>> >>
                           ELSE <<>>))
      jsonBytes == TextEncoder(JSONstringify(state))
  IN MAGIC \o Uint32(FORMAT_VERSION) \o crc32(jsonBytes) \o jsonBytes

\* The result of importState: as Ret, with the env map returned.
Imported(v, h, err, env) == [v |-> v, h |-> h, err |-> err, env |-> env]

\* readPayload reading every version from 2 on as version 2.
readPayload_anyVersion(blob) ==
  LET version == SubSeq(blob, 5, 8)
      jsonV2 == SubSeq(blob, HEADER_SIZE_V2 + 1, Len(blob))
  IN IF Len(blob) < HEADER_SIZE_V1
     THEN [err |-> "too short", jsonBytes |-> <<>>]
     ELSE IF \E i \in DOMAIN MAGIC : blob[i] # MAGIC[i]
     THEN [err |-> "bad magic bytes", jsonBytes |-> <<>>]
     ELSE IF version \notin {Uint32(0), Uint32(1)}
     THEN IF Len(blob) < HEADER_SIZE_V2
          THEN [err |-> "too short for v2", jsonBytes |-> <<>>]
          ELSE IF SubSeq(blob, 9, 12) # crc32(jsonV2)
          THEN [err |-> "checksum mismatch", jsonBytes |-> <<>>]
          ELSE [err |-> OK, jsonBytes |-> jsonV2]
     ELSE IF version = Uint32(1)
     THEN [err |-> OK, jsonBytes |-> SubSeq(blob, HEADER_SIZE_V1 + 1, Len(blob))]
     ELSE [err |-> "Unsupported state version", jsonBytes |-> <<>>]

\* importState up to the payload: the error thrown, the bytes of the JSON.
readPayload(blob) ==
  LET version == SubSeq(blob, 5, 8)
      jsonV2 == SubSeq(blob, HEADER_SIZE_V2 + 1, Len(blob))
  IN IF Len(blob) < HEADER_SIZE_V1
     THEN [err |-> "too short", jsonBytes |-> <<>>]
     ELSE IF \E i \in DOMAIN MAGIC : blob[i] # MAGIC[i]
     THEN [err |-> "bad magic bytes", jsonBytes |-> <<>>]
     ELSE IF version = Uint32(2)
     THEN IF Len(blob) < HEADER_SIZE_V2
          THEN [err |-> "too short for v2", jsonBytes |-> <<>>]
          ELSE IF SubSeq(blob, 9, 12) # crc32(jsonV2)
          THEN [err |-> "checksum mismatch", jsonBytes |-> <<>>]
          ELSE [err |-> OK, jsonBytes |-> jsonV2]
     ELSE IF version = Uint32(1)
     THEN [err |-> OK, jsonBytes |-> SubSeq(blob, HEADER_SIZE_V1 + 1, Len(blob))]
     ELSE [err |-> "Unsupported state version", jsonBytes |-> <<>>]

IsString(value, word) == value.t = "string" /\ value.v = Str(word)

\* The body of each of the three loops of importState, for one entry.
applyEntry(v, h, entry, phase) ==
  LET path == Parts(Get(entry, "path").v)
      content == IF Get(entry, "data").t = "string"
                 THEN fromBase64(Get(entry, "data").v)
                 ELSE [err |-> "TypeError", bytes |-> <<>>]
  IN IF phase = "dir" /\ IsString(Get(entry, "type"), "dir")
     THEN mkdirp(v, h, path)
     ELSE IF phase = "file" /\ IsString(Get(entry, "type"), "file")
     THEN (IF content.err # OK THEN Ret(v, h, content.err)
           ELSE writeFile(v, h, path, content.bytes))
     ELSE IF phase = "permissions" /\ Get(entry, "permissions").t # "undefined"
     THEN chmod(v, h, path, Get(entry, "permissions").v)
     ELSE Ret(v, h, OK)

\* The loops of importState still to run, the first of them from
\* entries[i] on, r being what the calls so far returned: a call that
\* throws ends them all.
RECURSIVE applyEntries(_, _, _, _)
applyEntries(r, entries, i, phases) ==
  IF r.err # OK \/ phases = <<>> THEN r
  ELSE IF i > Len(entries) THEN applyEntries(r, entries, 1, Tail(phases))
  ELSE applyEntries(applyEntry(r.v, r.h, entries[i], Head(phases)), entries, i + 1, phases)

\* The end of importState: withWriteAccess puts initializing back, the env
\* stored in the state is returned.
finishImport(prev, state, done) ==
  Imported([done.v EXCEPT !.initializing = prev], done.h, done.err,
           IF done.err = OK /\ Get(state, "env").t = "array"
           THEN MapOf(Get(state, "env").v, <<>>)
           ELSE NoEnv)

\* importState with the directories and files of the blob applied before
\* the blob is validated.
importState_applyFirst(v, h, blob) ==
  LET parsed == JSONparse(TextDecoder(SubSeq(blob, HEADER_SIZE_V2 + 1, Len(blob))))
      files == Get(parsed.v, "files")
  IN finishImport(v.initializing, JUndefined,
                  [applyEntries(Ret([v EXCEPT !.initializing = TRUE], h, OK),
                                IF parsed.ok /\ files.t = "array" THEN files.v ELSE <<>>,
                                1, <<"dir", "file">>)
                     EXCEPT !.err = readPayload(blob).err])

importState(v, h, blob) ==
  LET payload == readPayload(blob)
      parsed == JSONparse(TextDecoder(payload.jsonBytes))
      files == Get(parsed.v, "files")
  IN IF payload.err # OK THEN Imported(v, h, payload.err, NoEnv)
     ELSE IF ~parsed.ok THEN Imported(v, h, "SyntaxError", NoEnv)
     ELSE IF files.t # "array"
             \/ \E i \in DOMAIN files.v : Get(files.v[i], "path").t # "string"
     THEN Imported(v, h, "TypeError", NoEnv)
     ELSE finishImport(v.initializing, parsed.v,
            applyEntries(Ret([v EXCEPT !.initializing = TRUE], h, OK),
                         SelectSeq(files.v,
                                   LAMBDA entry : isSafeImportPath(Get(entry, "path").v)),
                         1, <<"dir", "file", "permissions">>))

(***************************************************************************)
(* Exports and imports of a VFS.                                           *)
(***************************************************************************)
MaxVersion == 3       \* largest version field of an imported blob
MaxPersistOps == 3    \* calls made after construction
MaxImports == 1       \* serializer calls among them

Tmp == <<"", "tmp">>
TmpAB == <<"", "tmp", "a", "b">>

\* new VFS() is given no options.
NoOptions == [fsLimitBytes |-> undefined, fileCount |-> undefined, writablePaths |-> NoPaths]

EnvMaps == <<NoEnv, <<>>, << <<Str("K"), Str("V")>> >> >>

\* The version fields imported: 0..MaxVersion and a 2 written big-endian.
Versions == {Uint32(n) : n \in 0..MaxVersion} \cup {<<0, 0, 0, 2>>}

\* The states imported: entries inside and outside the safe prefixes.
ImportStates ==
  << <<FileEntry(PathString(TmpB), <<>>, "dir", LinkMode),
       FileEntry(PathString(TmpA), toBase64(<<11>>), "file", LinkMode)>>,
     <<FileEntry(PathString(BinA), toBase64(<<11>>), "file", FileMode),
       FileEntry(PathString(TmpB), toBase64(<<11>>), "file", FileMode)>>,
     <<FileEntry(PathString(TmpAB), toBase64(<<11>>), "file", FileMode)>>,
     <<FileEntry(PathString(<<"", "tmp", "..", "bin", "a">>), toBase64(<<11>>), "file", FileMode),
       FileEntry(PathString(Bin), <<>>, "dir", LinkMode)>> >>

\* The payloads of the states imported and their CRC32, and a blob of the
\* given version field for the k-th: the layout of version 1 up to version
\* 1, that of version 2 from version 2 on.
Payloads ==
  [k \in DOMAIN ImportStates |->
     TextEncoder(JSONstringify(
       JObject(<< <<Str("version"), JNumber(FORMAT_VERSION)>>,
                  <<Str("files"), JArray(ImportStates[k])>>,
                  <<Str("env"), ArrayFrom(EnvMaps[3])>> >>)))]

Checksums == [k \in DOMAIN ImportStates |-> crc32(Payloads[k])]

MakeBlob(version, k) ==
  IF version \in {Uint32(0), Uint32(1)}
  THEN MAGIC \o version \o Payloads[k]
  ELSE MAGIC \o version \o Checksums[k] \o Payloads[k]

\* The ways a blob is damaged.
Damage == {"magic", "header", "header2", "checksum", "payload", "cut"}

Corrupt(blob, kind) ==
  IF kind = "magic" THEN [blob EXCEPT ![4] = Xor8(@, 1)]
  ELSE IF kind = "header" THEN SubSeq(blob, 1, HEADER_SIZE_V1 - 1)
  ELSE IF kind = "header2" THEN SubSeq(blob, 1, HEADER_SIZE_V2 - 1)
  ELSE IF kind = "checksum" THEN [blob EXCEPT ![HEADER_SIZE_V1 + 1] = Xor8(@, 1)]
  ELSE IF kind = "payload" THEN [blob EXCEPT ![Len(blob)] = Xor8(@, 1)]
  ELSE IF kind = "cut" THEN SubSeq(blob, 1, Len(blob) - 1)
  ELSE blob

\* The entries of a view that lie outside the safe import prefixes.
OutsideSafe(view) ==
  {e \in view : ~isSafeImportPath(<<"/">> \o PathString(e.path))}

\* A serializer call returned r; on names the VFS it was given.
Persisted(on, op, r, version, k, kind, env) ==
  /\ fsLast.left > 0
  /\ \E c \in {IF on = "vfs" THEN Canon(r.h, r.v, twin) ELSE Canon(r.h, vfs, r.v)} :
        /\ inodes' = c.h
        /\ vfs' = c.v
        /\ twin' = c.t
        /\ fsLast' = [on |-> on, op |-> op, id |-> 0, ok |-> r.err = OK,
                      changed |-> <<c.h, c.v>> # <<inodes, vfs>>,
                      left |-> fsLast.left - 1]
        /\ imp' = [op |-> op, n |-> imp.n + 1,
                   version |-> version, entries |-> k, kind |-> kind,
                   err |-> r.err, envIn |-> env, env |-> r.env,
                   outside |-> OutsideSafe(View(c.h, c.v.root))
                                 # OutsideSafe(View(inodes, vfs.root))]
  /\ UNCHANGED <<taken, sandbox, pipeVars, kernelVars, shellVars, netVars>>

\* exportState(vfs, env), then importState of the blob into a new VFS().
RoundTrip(e) ==
  /\ fsLast.left > 0 /\ imp.n < MaxImports
  /\ \E blob \in {exportState(vfs, inodes, EnvMaps[e], EXCLUDED_PREFIXES)} :
      \E fresh \in {VFS(inodes, NoOptions)} :
        \E r \in {importState(fresh.v, fresh.h, blob)} :
          Persisted("twin", "roundTrip", r, Uint32(FORMAT_VERSION), 0, "none",
                    EnvMaps[e])

\* importState(vfs, blob) for a blob built outside.
Import(version, k, kind) ==
  /\ fsLast.left > 0 /\ imp.n < MaxImports
  /\ \E r \in {importState(vfs, inodes, Corrupt(MakeBlob(version, k), kind))} :
       Persisted("vfs", "import", r, version, k, kind, NoEnv)

\* The blobs imported: every state whole, the first one damaged.
ImportCalls ==
  (Versions \X (DOMAIN ImportStates) \X {"none"}) \cup (Versions \X {1} \X Damage)

InitPersist == NewVfs(NoOptions, MaxPersistOps)

\* A sandbox whose state is exported and imported into a fresh VFS.
NextPersist ==
  \/ \E path \in {TmpA, Tmp}, data \in FileData : WriteFile("vfs", path, data)
  \/ Rmdir("vfs", Tmp)
  \/ Mkdir("vfs", TmpA)
  \/ Chmod("vfs", TmpA, LinkMode)
  \/ \E e \in DOMAIN EnvMaps : RoundTrip(e)

SpecPersist == InitPersist /\ [][NextPersist]_vars

\* A sandbox that imports a blob it was handed.
NextImport ==
  \/ \E data \in FileData : WriteFile("vfs", TmpA, data)
  \/ Symlink("vfs", Bin, TmpA)
  \/ \E call \in ImportCalls : Import(call[1], call[2], call[3])

SpecImport == InitPersist /\ [][NextImport]_vars

(***************************************************************************)
(* Properties of the serializer.                                           *)
(***************************************************************************)
\* The files and directories of a view that lie under the safe prefixes.
SafeEntries(view) ==
  {e \in view : /\ e.type \in {"file", "dir"}
                /\ isSafeImportPath(<<"/">> \o PathString(e.path))}

\* The map importState returns for the map exportState was given: an empty
\* map is not stored, and none comes back.
SameEnv(given, returned) ==
  IF given \in {NoEnv, <<>>} THEN returned = NoEnv ELSE returned = given

\* C16: exporting a VFS and an environment and importing the blob into a
\* fresh VFS succeeds, the fresh VFS then holds every file and directory the
\* exported one has under the safe prefixes, at the same path with the same
\* bytes and permissions, and the import returns the environment exported.
C16_RoundTrip ==
  fsLast.op = "roundTrip" =>
    /\ imp.err = OK
    /\ SafeEntries(View(inodes, vfs.root)) \subseteq View(inodes, twin.root)
    /\ SameEnv(imp.envIn, imp.env)

\* The errors importState throws for a blob it finds corrupted.
CorruptionErrors ==
  {"too short", "bad magic bytes", "too short for v2", "checksum mismatch"}

HasEntry(view, path, type) == \E e \in view : e.path = path /\ e.type = type

\* C17: an importState that fails because the blob is corrupted (bad magic,
\* truncated header, CRC32 mismatch of a version-2 blob) leaves the target
\* VFS as it was before the call.
C17_CorruptBlobLeavesVfs ==
  (fsLast.op = "import" /\ imp.err \in CorruptionErrors) => ~fsLast.changed

\* A version-2 blob naming /tmp/b was imported with its checksum damaged:
\* the import failed and /tmp/b was not created.
C17_Witness ==
  /\ fsLast.op = "import"
  /\ imp.version = Uint32(2) /\ imp.entries = 1 /\ imp.kind = "checksum"
  /\ imp.err = "checksum mismatch"
  /\ ~HasEntry(View(inodes, vfs.root), <<"tmp", "b">>, "dir")

\* C18: importState leaves every path outside the safe prefixes as it was
\* (none created, overwritten or given other permissions); a blob with an
\* entry outside the prefixes imports without an error and its other
\* entries are applied.
C18_ImportStaysInSafePrefixes ==
  fsLast.op = "import" =>
    /\ ~imp.outside
    /\ (imp.kind = "none" /\ imp.entries = 2 /\ imp.version \in {Uint32(1), Uint32(2)})
          => /\ imp.err = OK
             /\ HasEntry(View(inodes, vfs.root), <<"tmp", "b">>, "file")

\* DataView.getUint32(offset, true) of the four bytes at the offset.
getUint32(bytes) ==
  bytes[1] + 256 * bytes[2] + 65536 * bytes[3] + 16777216 * bytes[4]

Unsupported == "Unsupported state version"

\* An import of a blob with valid magic and a whole 8-byte header.
ImportedWithHeader ==
  fsLast.op = "import" /\ imp.kind \notin {"magic", "header"}

\* C19 as stated: importState accepts every blob with valid magic whose
\* version field is at least 1: none is rejected for its version.
C19_AcceptsEveryVersion ==
  (ImportedWithHeader /\ getUint32(imp.version) >= 1) => imp.err # Unsupported

\* C19, amended: of the blobs with valid magic importState accepts those of
\* version 1 and 2 only.  It checks the CRC32 of the payload for version 2
\* (a damaged payload or checksum is a checksum mismatch, a blob cut inside
\* the checksum is too short), makes no such check for version 1, and
\* rejects every other version as unsupported.
C19_VersionOneOrTwo ==
  ImportedWithHeader =>
    /\ getUint32(imp.version) \notin {1, 2} => imp.err = Unsupported
    /\ getUint32(imp.version) = 1 => imp.err \notin CorruptionErrors \cup {Unsupported}
    /\ getUint32(imp.version) = 2 =>
          /\ imp.kind = "none" => imp.err \notin CorruptionErrors \cup {Unsupported}
          /\ imp.kind = "header2" => imp.err = "too short for v2"
          /\ imp.kind \in {"checksum", "payload", "cut"} => imp.err = "checksum mismatch"

\* A blob of version 3 with valid magic and a matching checksum was
\* imported and rejected for its version.
C19_Witness ==
  /\ fsLast.op = "import"
  /\ imp.version = Uint32(3) /\ imp.kind = "none"
  /\ imp.err = Unsupported
  /\ ~fsLast.changed

(***************************************************************************)
(* Further properties of the async pipe.                                   *)
(***************************************************************************)
\* capacity minus buffered bytes.
FreeSpace == shared.capacity - shared.totalBytes

\* C25: a writeAsync is suspended only while its residual data is larger
\* than the free space of the buffer and the read end is open.
C25_WriterSuspendedOnlyWhenFull ==
  shared.pendingWriter =>
    /\ Len(shared.pendingWriterData) > FreeSpace
    /\ ~shared.readClosed

\* C26: with capacity of at least 1 and both ends open, a read and a
\* writeAsync are never suspended at the same time.
C26_NeverBothSuspended ==
  (shared.capacity >= 1 /\ ~shared.readClosed /\ ~shared.writeClosed)
    => ~(shared.pendingReader /\ shared.pendingWriter)

\* The bytes of the writer's latest call that were appended to the buffer.
AppendedByCall == SelectSeq(accepted, LAMBDA b : b \in Range(wrCall.data))

\* C27: when writeAsync(data) has resolved with n >= 0, the bytes that call
\* appended to the pipe are exactly the first n bytes of data.
C27_WriteAsyncCountsItsBytes ==
  (wrCall.op = "writeAsync" /\ wrCall.st = "resolved" /\ wrCall.n >= 0)
    => AppendedByCall = SubSeq(wrCall.data, 1, wrCall.n)

\* C28: a read into a non-empty buffer has resolved with 0 only if the
\* write end is closed and the buffer is empty; in particular a write or
\* writeAsync, of any length, does not resolve a read with 0.
C28_ZeroOnlyAtEof ==
  (rdCall.st = "resolved" /\ rdCall.len > 0 /\ rdCall.n = 0)
    => (shared.writeClosed /\ shared.totalBytes = 0)

\* C29: a read is suspended only while the buffer holds no byte and the
\* write end is not closed.
C29_ReaderSuspendedOnlyWhenEmpty ==
  /\ (rdCall.st = "pending") <=> shared.pendingReader
  /\ shared.pendingReader => (shared.totalBytes = 0 /\ ~shared.writeClosed)

\* A read is suspended on a pipe that has already carried bytes.
C29_Witness ==
  /\ rdCall.st = "pending" /\ shared.pendingReader
  /\ delivered # <<>>
  /\ shared.totalBytes = 0 /\ ~shared.writeClosed

(***************************************************************************)
(* Pipes used through the fd tables: any process that has an fd table      *)
(* creates pipes, and the ends are written and read through                *)
(* getFdTarget(pid, fd).pipe.  accepted and delivered hold <<pipe, byte>>  *)
(* pairs here; last holds the readFd and writeFd createPipe returned.       *)
(***************************************************************************)
MaxCallers == 2    \* pids 0..MaxCallers call the kernel

Callers == 0..MaxCallers

getFdTarget(k, pid, fd) ==
  IF HasFdTable(k, pid) /\ fd \in DOMAIN k.fdTables[pid]
  THEN k.fdTables[pid][fd]
  ELSE createNullTarget

Tagged(id, bytes) == [i \in DOMAIN bytes |-> <<id, bytes[i]>>]

FdCreatePipe(pid) ==
  /\ Len(pipes) < MaxPipes
  /\ HasFdTable(kernel, pid)
  /\ LET r == createPipe(kernel, pipes, pid)
     IN /\ kernel' = r.kernel
        /\ pipes' = r.pipes
        /\ last' = [op |-> "createPipe", arg |-> pid, ret |-> 0,
                   readFd |-> r.readFd, writeFd |-> r.writeFd]
  /\ UNCHANGED <<shared, nextByte, accepted, delivered, rdCall, wrCall, eofSeen,
                 eofSeenNE, buffers, spawns, procs, waits, sh, fsVars, netVars>>

FdInitProcess(pid) ==
  /\ ~HasFdTable(kernel, pid)
  /\ kernel' = initProcess(kernel, pid)
  /\ UNCHANGED <<pipes, buffers, spawns, procs, waits, sh, pipeVars, fsVars, netVars>>

\* The runner configures fd 1 of a process that has no fd table yet.
FdSetFdTarget(pid) ==
  /\ ~HasFdTable(kernel, pid)
  /\ kernel' = setFdTarget(kernel, pid, 1, BufferRef(1))
  /\ UNCHANGED <<pipes, buffers, spawns, procs, waits, sh, pipeVars, fsVars, netVars>>

\* getFdTarget(pid, fd).pipe.write(data) on a pipe_write target.
FdPipeWrite(pid, fd, k) ==
  /\ getFdTarget(kernel, pid, fd).type = "pipe_write"
  /\ nextByte + k - 1 <= MaxBytes
  /\ LET id == getFdTarget(kernel, pid, fd).ref
         r == writeEnd_write(pipes[id], FreshData(k))
     IN /\ pipes' = [pipes EXCEPT ![id] = r.shared]
        /\ accepted' = accepted \o Tagged(id, r.pushed)
        /\ delivered' = delivered \o Tagged(id, r.rdBuf)
        /\ last' = [op |-> "write", arg |-> fd, ret |-> r.ret]
  /\ nextByte' = nextByte + k
  /\ UNCHANGED <<shared, rdCall, wrCall, eofSeen, eofSeenNE, kernel, buffers,
                 spawns, procs, waits, sh, fsVars, netVars>>

\* getFdTarget(pid, fd).pipe.read(buf) on a pipe_read target, by a reader
\* that is not awaiting an earlier read of the pipe.
FdPipeRead(pid, fd, len) ==
  /\ getFdTarget(kernel, pid, fd).type = "pipe_read"
  /\ ~pipes[getFdTarget(kernel, pid, fd).ref].pendingReader
  /\ LET id == getFdTarget(kernel, pid, fd).ref
         r == readEnd_read(pipes[id], len)
     IN /\ pipes' = [pipes EXCEPT ![id] = r.shared]
        /\ delivered' = delivered \o Tagged(id, r.buf)
        /\ last' = [op |-> "read", arg |-> fd, ret |-> IF r.suspended THEN -2 ELSE r.ret]
  /\ UNCHANGED <<shared, nextByte, accepted, rdCall, wrCall, eofSeen, eofSeenNE,
                 kernel, buffers, spawns, procs, waits, sh, fsVars, netVars>>

NextPipeFds ==
  \/ \E pid \in Callers : FdCreatePipe(pid)
  \/ \E pid \in Callers : FdInitProcess(pid)
  \/ \E pid \in Callers : FdSetFdTarget(pid)
  \/ \E pid \in Callers : \E fd \in FdsOf(kernel, pid, {"pipe_write"}) :
       \E k \in 0..MaxData : FdPipeWrite(pid, fd, k)
  \/ \E pid \in Callers : \E fd \in FdsOf(kernel, pid, {"pipe_read"}) :
       \E len \in 1..MaxBuf : FdPipeRead(pid, fd, len)

SpecPipeFds == InitKernel /\ [][NextPipeFds]_vars

\* The bytes of pipe id among tagged bytes.
OfPipe(tagged, id) ==
  LET own == SelectSeq(tagged, LAMBDA t : t[1] = id)
  IN [i \in DOMAIN own |-> own[i][2]]

\* C23: createPipe called by a process that has an fd table returns two fds,
\* both at least 3, with writeFd = readFd + 1, and the caller's table then
\* holds at readFd the pipe_read end and at writeFd the pipe_write end of
\* one pipe that did not exist before; the bytes read through a pipe's read
\* fd are the bytes written through its write fd, in order.
C23_CreatePipeConnectedPair ==
  /\ [][Len(pipes') = Len(pipes) + 1 =>
         /\ last'.op = "createPipe"
         /\ last'.readFd >= 3 /\ last'.writeFd >= 3
         /\ last'.writeFd = last'.readFd + 1
         /\ getFdTarget(kernel', last'.arg, last'.readFd) = PipeReadRef(Len(pipes'))
         /\ getFdTarget(kernel', last'.arg, last'.writeFd) = PipeWriteRef(Len(pipes'))
         /\ pipes'[Len(pipes')] = createAsyncPipe(DEFAULT_PIPE_CAPACITY)
         /\ \A id \in DOMAIN pipes : pipes'[id] = pipes[id]]_vars
  /\ [](\A id \in DOMAIN pipes :
          OfPipe(accepted, id) = OfPipe(delivered, id) \o Flatten(pipes[id].chunks))

\* A process other than the shell created a pipe, wrote through the write
\* fd and read the bytes through the read fd.
C23_Witness ==
  /\ \E pid \in Callers \ {0} :
       \E fd \in FdsOf(kernel, pid, {"pipe_read"}) :
         /\ fd >= 3
         /\ getFdTarget(kernel, pid, fd + 1) = PipeWriteRef(getFdTarget(kernel, pid, fd).ref)
  /\ Len(delivered) >= 2
  /\ delivered = accepted

\* The endpoint an fd-target refers to is closed.
EndClosed(heap, target) ==
  IF target.type = "pipe_read" THEN heap[target.ref].readClosed
  ELSE heap[target.ref].writeClosed

\* A running child whose fd table (built by buildFdTableForSpawn) holds the
\* target.
HeldByChild(target) ==
  \E pid \in DOMAIN procs :
    /\ procs[pid].st = "ready"
    /\ \E fd \in DOMAIN procs[pid].io : procs[pid].io[fd] = target

\* C24: when the parent (pid 0) calls closeFd on its fd for a pipe endpoint
\* that a running child also holds in its fd table, the endpoint stays
\* open: it is not closed while a holder is left.
C24_EndpointOpenWhileHeld ==
  [][\A fd \in FdsOf(kernel, 0, {"pipe_read", "pipe_write"}) :
       (/\ HasFdTable(kernel', 0)
        /\ kernel'.fdTables[0] = Del(kernel.fdTables[0], fd)
        /\ HeldByChild(kernel.fdTables[0][fd])
        /\ ~EndClosed(pipes, kernel.fdTables[0][fd]))
         => ~EndClosed(pipes', kernel.fdTables[0][fd])]_vars

(***************************************************************************)
(* Calls on paths that pass through a symlink made in a writable           *)
(* directory, on a VFS with the default writable paths and outside any     *)
(* withWriteAccess scope.                                                  *)
(***************************************************************************)
LinkedPaths == {TmpA, TmpB, TmpAB}

NextLinks ==
  \/ \E target \in {Bin, TmpB} : Symlink("vfs", target, TmpA)
  \/ \E path \in LinkedPaths, data \in FileData : WriteFile("vfs", path, data)
  \/ \E path \in LinkedPaths : Mkdir("vfs", path)
  \/ \E path \in LinkedPaths : Unlink("vfs", path)
  \/ \E path \in LinkedPaths : Rmdir("vfs", path)
  \/ \E pair \in LinkedPaths \X LinkedPaths : Rename("vfs", pair[1], pair[2])

SpecLinks == InitVfs /\ [][NextLinks]_vars

\* The entries of a view whose path lies under none of the writable
\* prefixes of v.
ReadOnlyEntries(v, view) ==
  {e \in view : \A i \in DOMAIN v.writablePaths :
                  ~underPrefix(e.path, v.writablePaths[i])}

\* What new VFS() shows.
DefaultView == View(VFS(<<>>, NoOptions).h, VFS(<<>>, NoOptions).v.root)

\* C30: outside bypass scopes no sequence of VFS calls, paths through
\* symlinks included, creates, replaces or removes an entry outside the
\* writable prefixes: those entries stay as the constructor made them.
C30_ReadOnlyTreeUntouched ==
  (Live("vfs") /\ ~vfs.initializing /\ vfs.writablePaths # NoPaths)
    => ReadOnlyEntries(vfs, View(inodes, vfs.root)) = ReadOnlyEntries(vfs, DefaultView)

(***************************************************************************)
(* The Sandbox facade.  The shell runner behind it is known by its         *)
(* interface: run returns a promise that the runner settles from a task of *)
(* the facade's thread, between suspensions; setEnv and getEnv write and   *)
(* read a map.  A command writes files of the VFS the facade shares with   *)
(* the runner; it leaves the map alone.                                    *)
(***************************************************************************)
MaxCalls == 3     \* facade calls made on one sandbox
MaxClock == 3     \* the milliseconds that pass
MaxTimeout == 2   \* largest timeoutMs option
Epsilon == 1      \* the scheduler's granularity, in milliseconds

DEFAULT_FS_LIMIT == 268435456
DESTROYED == "Sandbox has been destroyed"
TimedOut == "command timed out\n"

EnvNames == {"K"}
EnvValues == {"V", "W"}
ExitCodes == {0, 1}
SandboxPaths == {TmpA, BinA}

NoRun == [st |-> "none", due |-> 0, timer |-> "none", at |-> 0, exitCode |-> 0, stderr |-> ""]
RunnerIdle == [st |-> "idle", at |-> 0, exitCode |-> 0]

\* Sandbox.create with the option timeoutMs.
InitSandbox ==
  /\ bridge = NoBridge
  /\ KernelIdle
  /\ PipeIdle
  /\ LET r == VFS(<<>>, [fsLimitBytes |-> DEFAULT_FS_LIMIT, fileCount |-> undefined,
                         writablePaths |-> NoPaths])
         c == Canon(r.h, r.v, [root |-> 0])
     IN inodes = c.h /\ vfs = c.v
  /\ twin = [root |-> 0]
  /\ taken = <<>>
  /\ fsLast = [op |-> "none"]
  /\ imp = [op |-> "none"]
  /\ \E timeoutMs \in 1..MaxTimeout :
       sandbox = [destroyed |-> FALSE, timeoutMs |-> timeoutMs, env |-> EmptyMap,
                  calls |-> 0, call |-> [op |-> "create", err |-> OK],
                  now |-> 0, run |-> NoRun, runner |-> RunnerIdle]

\* assertAlive never throwing.
assertAlive_never(sb) == OK

\* Sandbox.assertAlive: the message of the Error it throws.
assertAlive(sb) == IF sb.destroyed THEN DESTROYED ELSE OK

\* The facade's caller runs on the thread the runner's tasks run on.
ThreadFree == sandbox.runner.st # "running"

Returned(sb, op, err) ==
  [sb EXCEPT !.calls = @ + 1, !.call = [op |-> op, err |-> err]]

\* A facade method handing its call to the VFS method that returns r.
SandboxVfsCall(op, r) ==
  /\ ThreadFree /\ sandbox.calls < MaxCalls
  /\ \E alive \in {assertAlive(sandbox)} :
       IF alive # OK
       THEN /\ sandbox' = Returned(sandbox, op, alive)
            /\ UNCHANGED <<inodes, vfs>>
       ELSE \E c \in {Canon(r.h, r.v, twin)} :
              /\ inodes' = c.h
              /\ vfs' = c.v
              /\ sandbox' = Returned(sandbox, op, r.err)
  /\ UNCHANGED <<twin, taken, fsLast, imp, pipeVars, kernelVars, shellVars, netVars>>

\* What a VFS method that only reads path throws.
Looked(path, notFor, code) ==
  LET r == resolve(inodes, vfs.root, path, TRUE, 0)
  IN [h |-> inodes, v |-> vfs,
      err |-> IF r.err # OK THEN r.err
              ELSE IF inodes[r.inode].type \in notFor THEN code ELSE OK]

Sandbox_writeFile(path, data) ==
  SandboxVfsCall("writeFile", writeFile(vfs, inodes, path, data))
Sandbox_mkdir(path) == SandboxVfsCall("mkdir", mkdir(vfs, inodes, path))
Sandbox_rm(path) == SandboxVfsCall("rm", unlink(vfs, inodes, path))
Sandbox_readFile(path) == SandboxVfsCall("readFile", Looked(path, {"dir"}, "EISDIR"))
Sandbox_readDir(path) == SandboxVfsCall("readDir", Looked(path, {"file"}, "ENOTDIR"))
Sandbox_stat(path) == SandboxVfsCall("stat", Looked(path, {}, OK))

Sandbox_setEnv(name, value) ==
  /\ ThreadFree /\ sandbox.calls < MaxCalls
  /\ \E alive \in {assertAlive(sandbox)} :
       sandbox' = IF alive # OK THEN Returned(sandbox, "setEnv", alive)
                  ELSE [Returned(sandbox, "setEnv", OK) EXCEPT !.env = Put(@, name, value)]
  /\ UNCHANGED <<inodes, vfs, twin, taken, fsLast, imp, pipeVars, kernelVars, shellVars, netVars>>

Sandbox_getEnv(name) ==
  /\ ThreadFree /\ sandbox.calls < MaxCalls
  /\ sandbox' = Returned(sandbox, "getEnv", assertAlive(sandbox))
  /\ UNCHANGED <<inodes, vfs, twin, taken, fsLast, imp, pipeVars, kernelVars, shellVars, netVars>>

Sandbox_destroy ==
  /\ ThreadFree
  /\ sandbox' = [sandbox EXCEPT !.destroyed = TRUE]
  /\ UNCHANGED <<inodes, vfs, twin, taken, fsLast, imp, pipeVars, kernelVars, shellVars, netVars>>

\* Sandbox.run, one command at a time: the timer is set, the runner starts
\* the command in the caller's task, and the race of the two is returned.
Sandbox_run ==
  /\ ThreadFree /\ sandbox.calls < MaxCalls
  /\ sandbox.runner.st \in {"idle", "done"}
  /\ sandbox.run.timer # "armed"
  /\ \E alive \in {assertAlive(sandbox)} :
       sandbox' =
         IF alive # OK
         THEN [Returned(sandbox, "run", alive) EXCEPT !.run = [NoRun EXCEPT !.st = "rejected"]]
         ELSE [Returned(sandbox, "run", OK) EXCEPT
                 !.run = [NoRun EXCEPT !.st = "racing", !.timer = "armed",
                                       !.due = sandbox.now + sandbox.timeoutMs],
                 !.runner = [RunnerIdle EXCEPT !.st = "running"]]
  /\ UNCHANGED <<inodes, vfs, twin, taken, fsLast, imp, pipeVars, kernelVars, shellVars, netVars>>

TimerDue == sandbox.run.timer = "armed" /\ sandbox.now >= sandbox.run.due

\* A millisecond passes.  A free thread runs a due timer at once.
Tick ==
  /\ sandbox.now < MaxClock
  /\ ~(TimerDue /\ ThreadFree)
  /\ sandbox' = [sandbox EXCEPT !.now = @ + 1]
  /\ UNCHANGED <<inodes, vfs, twin, taken, fsLast, imp, pipeVars, kernelVars, shellVars, netVars>>

\* The setTimeout callback of run, a task of its own: it resolves the
\* timer promise, which settles the race unless the race is settled.
TimerFires ==
  /\ TimerDue /\ ThreadFree
  /\ sandbox' = [sandbox EXCEPT
       !.run = IF sandbox.run.st = "racing"
               THEN [@ EXCEPT !.st = "resolved", !.timer = "fired", !.at = sandbox.now,
                              !.exitCode = 124, !.stderr = TimedOut]
               ELSE [@ EXCEPT !.timer = "fired"]]
  /\ UNCHANGED <<inodes, vfs, twin, taken, fsLast, imp, pipeVars, kernelVars, shellVars, netVars>>

\* The runner awaits: its task ends.
RunnerSuspends ==
  /\ sandbox.runner.st = "running"
  /\ sandbox' = [sandbox EXCEPT !.runner.st = "suspended"]
  /\ UNCHANGED <<inodes, vfs, twin, taken, fsLast, imp, pipeVars, kernelVars, shellVars, netVars>>

\* What the runner awaited is there: it goes on in a new task, after the
\* timers that are due.
RunnerResumes ==
  /\ sandbox.runner.st = "suspended"
  /\ ~TimerDue
  /\ sandbox' = [sandbox EXCEPT !.runner.st = "running"]
  /\ UNCHANGED <<inodes, vfs, twin, taken, fsLast, imp, pipeVars, kernelVars, shellVars, netVars>>

\* The command writes a file, in a task of the runner.
RunnerWrites(path, data) ==
  /\ sandbox.runner.st = "running"
  /\ \E r \in {writeFile(vfs, inodes, path, data)} :
       \E c \in {Canon(r.h, r.v, twin)} :
         /\ inodes' = c.h
         /\ vfs' = c.v
  /\ UNCHANGED <<sandbox, twin, taken, fsLast, imp, pipeVars, kernelVars, shellVars, netVars>>

\* The runner resolves its promise with the command's result; the
\* reaction of the race runs when the task ends, before any other task.
RunnerFinishes(exitCode) ==
  /\ sandbox.runner.st = "running"
  /\ sandbox' = [sandbox EXCEPT
       !.runner = [st |-> "done", at |-> sandbox.now, exitCode |-> exitCode],
       !.run = IF sandbox.run.st = "racing"
               THEN [@ EXCEPT !.st = "resolved", !.at = sandbox.now,
                              !.exitCode = exitCode, !.stderr = ""]
               ELSE @]
  /\ UNCHANGED <<inodes, vfs, twin, taken, fsLast, imp, pipeVars, kernelVars, shellVars, netVars>>

NextSandbox ==
  \/ \E path \in SandboxPaths, data \in FileData : Sandbox_writeFile(path, data)
  \/ \E path \in SandboxPaths : Sandbox_mkdir(path)
  \/ \E path \in SandboxPaths : Sandbox_rm(path)
  \/ \E path \in SandboxPaths : Sandbox_readFile(path)
  \/ \E path \in SandboxPaths : Sandbox_readDir(path)
  \/ \E path \in SandboxPaths : Sandbox_stat(path)
  \/ \E name \in EnvNames, value \in EnvValues : Sandbox_setEnv(name, value)
  \/ \E name \in EnvNames : Sandbox_getEnv(name)
  \/ Sandbox_destroy
  \/ Sandbox_run
  \/ Tick
  \/ TimerFires
  \/ RunnerSuspends
  \/ RunnerResumes
  \/ \E data \in FileData : RunnerWrites(TmpA, data)
  \/ \E exitCode \in ExitCodes : RunnerFinishes(exitCode)

SpecSandbox == InitSandbox /\ [][NextSandbox]_vars

\* C22: once destroy() was called, a facade call fails with the destroyed
\* error, leaves the VFS and the environment as they were and starts no
\* command; the sandbox stays destroyed.
C22_DestroyedCallsFailAndChangeNothing ==
  [][sandbox.destroyed =>
       /\ sandbox'.destroyed
       /\ sandbox'.calls # sandbox.calls =>
            /\ sandbox'.call.err = DESTROYED
            /\ inodes' = inodes /\ vfs' = vfs
            /\ sandbox'.env = sandbox.env
            /\ sandbox'.runner = sandbox.runner
            /\ sandbox'.run \in {sandbox.run, [NoRun EXCEPT !.st = "rejected"]}]_vars

\* A call of writeFile failed on a destroyed sandbox that holds a variable.
C22_Witness ==
  /\ sandbox.destroyed /\ sandbox.calls >= 2
  /\ sandbox.call = [op |-> "writeFile", err |-> DESTROYED]
  /\ sandbox.env # EmptyMap

ShellDoneBy(t) == sandbox.runner.st = "done" /\ sandbox.runner.at <= t

\* C21: a run that has resolved gave exit code 124 and the timed-out
\* message, no later than the scheduler's granularity after the deadline,
\* when the shell had no result by then; and gave the shell's result when
\* the shell had it before the deadline.
C21_TimeoutOrShellResult ==
  sandbox.run.st = "resolved" =>
    /\ ~ShellDoneBy(sandbox.run.due + Epsilon) =>
         /\ sandbox.run.exitCode = 124 /\ sandbox.run.stderr = TimedOut
         /\ sandbox.run.at <= sandbox.run.due + Epsilon
    /\ ShellDoneBy(sandbox.run.due - 1) =>
         /\ sandbox.run.exitCode = sandbox.runner.exitCode /\ sandbox.run.stderr = ""
         /\ sandbox.run.at = sandbox.runner.at

(***************************************************************************)
(* The shape of the live tree.                                             *)
(***************************************************************************)
\* The directories that hold the inode id, among those reachable from root.
ParentsOf(h, root, id) ==
  {e \in Entries(h, root, <<>>) :
     \E n \in DOMAIN h[e[2]].children : h[e[2]].children[n] = id}

\* newPath names no entry.
FreeName(h, root, newPath) ==
  LET np == resolveParent(h, root, newPath)
  IN np.err = OK /\ np.name \notin DOMAIN h[np.parent].children

\* C31: the entries reachable from the root form a tree (every entry but
\* the root is held by exactly one directory), and a rename to a name that
\* is free removes no entry: as many are reachable after it as before.
C31_RenameKeepsTheTree ==
  /\ [](\A e \in Entries(inodes, vfs.root, <<>>) :
          e[2] # vfs.root => Cardinality(ParentsOf(inodes, vfs.root, e[2])) = 1)
  /\ [][\A pair \in LinkedPaths \X LinkedPaths :
          LET r == rename(vfs, inodes, pair[1], pair[2])
              c == Canon(r.h, r.v, twin)
          IN (/\ fsLast'.op = "rename" /\ r.err = OK
              /\ inodes' = c.h /\ vfs' = c.v
              /\ FreeName(inodes, vfs.root, pair[2]))
               => Cardinality(Entries(inodes', vfs'.root, <<>>))
                    = Cardinality(Entries(inodes, vfs.root, <<>>))]_vars

(***************************************************************************)
(* A VFS constructed with the option fileCount.                            *)
(***************************************************************************)
MaxEntries == 8   \* the fileCount option: the seven directories of the layout and one more

InitCount ==
  NewVfs([fsLimitBytes |-> undefined, fileCount |-> MaxEntries,
          writablePaths |-> NoPaths], MaxOps)

NextCount ==
  \/ \E path \in WorkPaths, data \in FileData : WriteFile("vfs", path, data)
  \/ \E path \in WorkPaths : Mkdir("vfs", path)
  \/ \E path \in WorkPaths : Mkdirp("vfs", path)
  \/ \E path \in WorkPaths : Unlink("vfs", path)
  \/ \E path \in WorkPaths : Rmdir("vfs", path)
  \/ \E pair \in WorkPaths \X WorkPaths : Rename("vfs", pair[1], pair[2])
  \/ \E target \in LinkTargets, path \in WorkPaths : Symlink("vfs", target, path)

SpecCount == InitCount /\ [][NextCount]_vars

\* The files and directories of the live tree, the root left out.
FilesAndDirs(h, root) ==
  {e \in Entries(h, root, <<>>) : e[2] # root /\ h[e[2]].type \in {"file", "dir"}}

\* C32: with an entry-count limit the live tree never holds more files and
\* directories than the limit.
C32_EntriesWithinLimit ==
  vfs.fileCountLimit # undefined
    => Cardinality(FilesAndDirs(inodes, vfs.root)) <= vfs.fileCountLimit

(***************************************************************************)
(* writeFile on a symlink.                                                 *)
(***************************************************************************)
\* The entry named by path, not followed, is a symlink whose target
\* resolves to a file.
LinkToFile(h, root, path) ==
  LET l == resolve(h, root, path, FALSE, 0)
  IN /\ l.err = OK
     /\ h[l.inode].type = "symlink"
     /\ LET t == resolve(h, root, h[l.inode].target, TRUE, 0)
        IN t.err = OK /\ h[t.inode].type = "file"

\* C33: a writeFile that succeeds on a path ending in a symlink to a file
\* leaves the symlink a symlink and replaces the content of the file it
\* points to, which is then what a read through either path returns.
C33_WriteFileFollowsLeafSymlink ==
  [][\A path \in WorkPaths, data \in FileData :
       LET r == writeFile(vfs, inodes, path, data)
           c == Canon(r.h, r.v, twin)
       IN (/\ fsLast'.op = "writeFile" /\ r.err = OK
           /\ inodes' = c.h /\ vfs' = c.v
           /\ LinkToFile(inodes, vfs.root, path))
            => /\ LinkToFile(inodes', vfs'.root, path)
               /\ inodes'[resolve(inodes', vfs'.root, path, TRUE, 0).inode].content = data]_vars

(***************************************************************************)
(* A command that outlives its deadline.                                   *)
(***************************************************************************)
\* run has resolved with the timeout result and the command it was racing
\* has not ended.
TimedOutCommandAlive ==
  /\ sandbox.run.st = "resolved"
  /\ sandbox.run.exitCode = 124 /\ sandbox.run.stderr = TimedOut
  /\ sandbox.runner.st \in {"running", "suspended"}

\* C34: after run() returned the timeout result, nothing but a later
\* facade call changes the VFS or the environment: the command that timed
\* out changes neither.
C34_TimedOutCommandIsInert ==
  [][(TimedOutCommandAlive /\ sandbox'.calls = sandbox.calls)
       => (inodes' = inodes /\ vfs' = vfs /\ sandbox'.env = sandbox.env)]_vars

(***************************************************************************)
(* What a pipeline leaves behind.                                          *)
(***************************************************************************)
\* The pipeline has ended: normally, or with the Err of a host call.
PipelineEnded == sh.pc \in {"done", "failed"}

\* C35: when a pipeline has ended, normally or early, none of the pipe fds
\* it created is left in the shell's fd table, and stdin_fd and stdout_fd
\* are what they were before it (0 and 1).
C35_PipelineCleansUp ==
  PipelineEnded =>
    /\ \A i \in DOMAIN sh.fds :
         sh.fds[i][1] \notin DOMAIN kernel.fdTables[0]
           /\ sh.fds[i][2] \notin DOMAIN kernel.fdTables[0]
    /\ sh.stdin_fd = 0 /\ sh.stdout_fd = 1

(***************************************************************************)
(* The fd table of process 0 under createPipe, setFdTarget, closeFd and    *)
(* dispose, with reads of the pipes that may suspend.                      *)
(***************************************************************************)
MaxFd == 5        \* largest fd given to setFdTarget

\* The runner sets fd of a process that has an fd table to a null target.
FdOverwrite(pid, fd) ==
  /\ HasFdTable(kernel, pid)
  /\ kernel' = setFdTarget(kernel, pid, fd, createNullTarget)
  /\ UNCHANGED <<pipes, buffers, spawns, procs, waits, sh, pipeVars, fsVars, netVars>>

NextFdTable ==
  \/ FdCreatePipe(0)
  \/ FdInitProcess(0)
  \/ \E fd \in 3..MaxFd : FdOverwrite(0, fd)
  \/ \E fd \in FdsOf(kernel, 0, {"pipe_read", "pipe_write"}) : KCloseFd(fd)
  \/ \E fd \in FdsOf(kernel, 0, {"pipe_read"}) : FdPipeRead(0, fd, 1)
  \/ KDispose

SpecFdTable == InitKernel /\ [][NextFdTable]_vars

\* C36: dispose empties the fd tables and the process table, closes every
\* pipe endpoint an fd table held, and leaves no read or write suspended on
\* a pipe of which an fd table held an endpoint.
C36_DisposeClosesAndResolves ==
  [][(kernel.fdTables # EmptyMap /\ kernel'.fdTables = EmptyMap) =>
       /\ kernel'.processTable = EmptyMap
       /\ \A id \in DOMAIN pipes :
            /\ Held(kernel, "pipe_read", id) => pipes'[id].readClosed
            /\ Held(kernel, "pipe_write", id) => pipes'[id].writeClosed
            /\ (Held(kernel, "pipe_read", id) \/ Held(kernel, "pipe_write", id))
                 => (~pipes'[id].pendingReader /\ ~pipes'[id].pendingWriter)]_vars

\* The smallest fd of at least 3 outside the set present.
SmallestFree(present) == CHOOSE fd \in 3..(Cardinality(present) + 3) :
  fd \notin present /\ \A g \in 3..(fd - 1) : g \in present

\* C37: the two fds createPipe allocates are, one after the other, the
\* smallest fd of at least 3 that the caller's table does not hold.
C37_SmallestFreeFd ==
  [][Len(pipes') = Len(pipes) + 1 =>
       LET table == DOMAIN kernel.fdTables[last'.arg]
       IN /\ last'.readFd = SmallestFree(table)
          /\ last'.writeFd = SmallestFree(table \cup {last'.readFd})]_vars

(***************************************************************************)
(* NetworkBridge (network/bridge.ts): the thread calling fetchSync and the *)
(* worker share the status word Int32[0] and the payload bytes.  Each      *)
(* Atomics call is a step; the threads run in parallel.                    *)
(***************************************************************************)
MaxRequests == 2   \* calls of fetchSync

STATUS_IDLE == 0
STATUS_REQUEST_READY == 1
STATUS_RESPONSE_READY == 2
STATUS_ERROR == 3

Request(n) == [kind |-> "request", n |-> n]
Response(n) == [kind |-> "response", n |-> n]

\* start() has created the worker.
InitBridge ==
  /\ KernelIdle
  /\ PipeIdle
  /\ inodes = <<>>
  /\ vfs = [root |-> 0]
  /\ twin = [root |-> 0]
  /\ taken = <<>>
  /\ fsLast = [op |-> "none"]
  /\ imp = [op |-> "none"]
  /\ sandbox = NoSandbox
  /\ bridge = [status |-> STATUS_IDLE, slot |-> [kind |-> "none", n |-> 0],
               main |-> "idle", worker |-> "top", n |-> 0, req |-> 0,
               handled |-> <<>>, returns |-> <<>>]

\* fetchSync refused by the gateway: it returns status 403.
FetchSync_Denied ==
  /\ bridge.main = "idle" /\ bridge.n < MaxRequests
  /\ bridge' = [bridge EXCEPT
       !.n = @ + 1,
       !.returns = Append(@, [n |-> bridge.n + 1, denied |-> TRUE, status |-> 403,
                              slot |-> [kind |-> "none", n |-> 0]])]
  /\ UNCHANGED <<pipeVars, kernelVars, shellVars, fsVars>>

\* fetchSync allowed by the gateway: the request is written and the status
\* word set to request_ready.
FetchSync_Store ==
  /\ bridge.main = "idle" /\ bridge.n < MaxRequests
  /\ bridge' = [bridge EXCEPT !.n = @ + 1, !.slot = Request(bridge.n + 1),
                              !.status = STATUS_REQUEST_READY, !.main = "stored"]
  /\ UNCHANGED <<pipeVars, kernelVars, shellVars, fsVars>>

\* Atomics.notify(this.int32, 0) of fetchSync.
FetchSync_Notify ==
  /\ bridge.main = "stored"
  /\ bridge' = [bridge EXCEPT !.main = "wait",
                              !.worker = IF @ = "blocked" THEN "check" ELSE @]
  /\ UNCHANGED <<pipeVars, kernelVars, shellVars, fsVars>>

\* Atomics.wait(this.int32, 0, STATUS_REQUEST_READY).
FetchSync_Wait ==
  /\ bridge.main = "wait"
  /\ bridge' = [bridge EXCEPT !.main = IF bridge.status # STATUS_REQUEST_READY
                                       THEN "woken" ELSE "blocked"]
  /\ UNCHANGED <<pipeVars, kernelVars, shellVars, fsVars>>

\* fetchSync after the wait: it reads the status and the payload, resets
\* the status word to idle and returns.
FetchSync_Return ==
  /\ bridge.main = "woken"
  /\ bridge' = [bridge EXCEPT
       !.status = STATUS_IDLE, !.main = "idle",
       !.returns = Append(@, [n |-> bridge.n, denied |-> FALSE,
                              status |-> bridge.status, slot |-> bridge.slot])]
  /\ UNCHANGED <<pipeVars, kernelVars, shellVars, fsVars>>

\* Atomics.wait(int32, 0, STATUS_IDLE) of the worker loop.
Worker_Wait ==
  /\ bridge.worker = "top"
  /\ bridge' = [bridge EXCEPT !.worker = IF bridge.status # STATUS_IDLE
                                         THEN "check" ELSE "blocked"]
  /\ UNCHANGED <<pipeVars, kernelVars, shellVars, fsVars>>

\* The worker reads the status word and, at request_ready, the request.
Worker_Check ==
  /\ bridge.worker = "check"
  /\ bridge' = IF bridge.status # STATUS_REQUEST_READY
               THEN [bridge EXCEPT !.worker = "top"]
               ELSE [bridge EXCEPT !.worker = "fetching", !.req = bridge.slot.n,
                                   !.handled = Append(@, bridge.slot.n)]
  /\ UNCHANGED <<pipeVars, kernelVars, shellVars, fsVars>>

\* fetch has settled: the worker writes the result and sets the status
\* word to response_ready, or to error when fetch threw.
Worker_Respond(ok) ==
  /\ bridge.worker = "fetching"
  /\ bridge' = [bridge EXCEPT
       !.slot = Response(bridge.req),
       !.status = IF ok THEN STATUS_RESPONSE_READY ELSE STATUS_ERROR,
       !.worker = "notify"]
  /\ UNCHANGED <<pipeVars, kernelVars, shellVars, fsVars>>

\* Atomics.notify(int32, 0) of the worker, which then loops.
Worker_Notify ==
  /\ bridge.worker = "notify"
  /\ bridge' = [bridge EXCEPT !.worker = "top",
                              !.main = IF @ = "blocked" THEN "woken" ELSE @]
  /\ UNCHANGED <<pipeVars, kernelVars, shellVars, fsVars>>

NextBridge ==
  \/ FetchSync_Denied
  \/ FetchSync_Store
  \/ FetchSync_Notify
  \/ FetchSync_Wait
  \/ FetchSync_Return
  \/ Worker_Wait
  \/ Worker_Check
  \/ \E ok \in BOOLEAN : Worker_Respond(ok)
  \/ Worker_Notify

SpecBridge == InitBridge /\ [][NextBridge]_vars

StatusMoves ==
  {<<STATUS_IDLE, STATUS_REQUEST_READY>>,
   <<STATUS_REQUEST_READY, STATUS_RESPONSE_READY>>,
   <<STATUS_REQUEST_READY, STATUS_ERROR>>,
   <<STATUS_RESPONSE_READY, STATUS_IDLE>>,
   <<STATUS_ERROR, STATUS_IDLE>>}

\* C38: an allowed fetchSync returns what the worker wrote for its request
\* under the status response_ready or error, and leaves the status word
\* idle; the worker reads no request twice; the status word moves only
\* idle -> request_ready -> response_ready or error -> idle.
C38_BridgeProtocol ==
  /\ [](\A i \in DOMAIN bridge.returns :
          ~bridge.returns[i].denied =>
            /\ bridge.returns[i].status \in {STATUS_RESPONSE_READY, STATUS_ERROR}
            /\ bridge.returns[i].slot = Response(bridge.returns[i].n))
  /\ [](\A i, j \in DOMAIN bridge.handled :
          i # j => bridge.handled[i] # bridge.handled[j])
  /\ [][bridge'.status # bridge.status
          => <<bridge.status, bridge'.status>> \in StatusMoves]_vars
  /\ [][Len(bridge'.returns) > Len(bridge.returns) => bridge'.status = STATUS_IDLE]_vars

(***************************************************************************)
(* fd_write on a capture buffer with a byte cap.                           *)
(***************************************************************************)
MaxLimit == 2     \* largest byte cap of the buffer, besides Infinity
MaxIovecs == 2    \* iovecs of one fd_write
MaxChunks == 4    \* slices kept in one buffer
MaxWritten == 5   \* bytes written to one buffer

\* The fd table of a host whose fd 1 is the buffer.
BufferIoFds == [fd \in {1} |-> BufferRef(1)]

IovecData == {<<>>, <<1>>, <<2>>, <<1, 2>>}
IovecLists == UNION {[1..n -> IovecData] : n \in 0..MaxIovecs}

InitBuffer ==
  /\ PipeIdle
  /\ FsIdle
  /\ sh = ShellOff
  /\ kernel = ProcessKernel
  /\ pipes = <<>>
  /\ spawns = <<>>
  /\ procs = EmptyMap
  /\ waits = <<>>
  /\ \E limit \in (0..MaxLimit) \cup {Infinity} :
       buffers = <<createBufferTarget(limit)>>

HostFdWrite(iovecs) ==
  /\ Len(buffers[1].buf) + Len(iovecs) <= MaxChunks
  /\ buffers[1].total + Len(Flatten(iovecs)) <= MaxWritten
  /\ buffers' = fdWrite(BufferIoFds, pipes, buffers, 1, iovecs).buffers
  /\ UNCHANGED <<kernel, pipes, spawns, procs, waits, sh, pipeVars, fsVars, netVars>>

NextBuffer == \E iovecs \in IovecLists : HostFdWrite(iovecs)

SpecBuffer == InitBuffer /\ [][NextBuffer]_vars

\* C39: a buffer with cap L holds the first min(total, L) bytes written to
\* it, and its truncated flag is set exactly when a written byte was
\* discarded, that is when more than L bytes were written.
C39_BufferHoldsFirstBytes ==
  /\ [](\A b \in DOMAIN buffers :
          /\ Len(bufferToString(buffers[b])) = Min(buffers[b].total, buffers[b].limit)
          /\ buffers[b].truncated <=> buffers[b].total > buffers[b].limit)
  /\ [][\A iovecs \in IovecLists :
          buffers' = fdWrite(BufferIoFds, pipes, buffers, 1, iovecs).buffers
            => bufferToString(buffers'[1])
                 = SubSeq(bufferToString(buffers[1]) \o Flatten(iovecs), 1,
                          Min(buffers[1].total + Len(Flatten(iovecs)), buffers[1].limit))]_vars

(***************************************************************************)
(* A VFS with a writable-path policy, a byte limit and an entry limit, and *)
(* its cowClone.                                                           *)
(***************************************************************************)
InitPolicy ==
  NewVfs([fsLimitBytes |-> MaxFile, fileCount |-> MaxEntries,
          writablePaths |-> NoPaths], MaxOps)

NextPolicy ==
  \/ CowClone
  \/ \E on \in {"vfs", "twin"}, path \in OpPaths, data \in FileData :
       WriteFile(on, path, data)
  \/ \E on \in {"vfs", "twin"}, path \in OpPaths : Mkdir(on, path)
  \/ \E on \in {"vfs", "twin"}, path \in OpPaths : Unlink(on, path)

SpecPolicy == InitPolicy /\ [][NextPolicy]_vars

\* The policy and the quotas of the VFS limits hold of the tree of v.
WithinPolicy(h, v, limits) ==
  /\ \A e \in Entries(h, v.root, <<>>) :
       \/ e[2] = v.root
       \/ \E i \in DOMAIN DefaultLayout : parsePath(DefaultLayout[i]).segments = e[1]
       \/ \E i \in DOMAIN limits.writablePaths :
            underPrefix(e[1], limits.writablePaths[i])
  /\ limits.fsLimitBytes # undefined => LiveBytes(h, v) <= limits.fsLimitBytes
  /\ limits.fileCountLimit # undefined
       => Cardinality(FilesAndDirs(h, v.root)) <= limits.fileCountLimit

\* C40: the tree of a cowClone stays within the writable paths, the byte
\* limit and the entry limit of its source.
C40_CloneKeepsPolicyAndQuotas ==
  Live("twin") => WithinPolicy(inodes, twin, vfs)

====
